---- MODULE Spec2Model ----
(***************************************************************************)
(* Model of GL_Commdlg.hpp: the encoding helpers, the native-dialog        *)
(* wrappers and the two hand-built modal dialogs (messageBox and           *)
(* promptDialog) together with their window procedures.                    *)
(*                                                                         *)
(* Text is a sequence of code units: UTF-8 text a sequence of bytes, wide  *)
(* text a sequence of 16-bit units.  A window is named by the number of    *)
(* the call that created it, a child control by <<window, control id>>,    *)
(* and the null handle is 0.                                               *)
(***************************************************************************)
EXTENDS Integers, Sequences, FiniteSets, TLC

\* ------------------------------------------------------------------------
\* Bounds of the model
\* ------------------------------------------------------------------------

\* number of calls of each dialog function in one run
MaxCalls == 2

\* ------------------------------------------------------------------------
\* Small helpers
\* ------------------------------------------------------------------------

Min(a, b) == IF a < b THEN a ELSE b

Range(s) == {s[k] : k \in 1..Len(s)}

Repeat(c, n) == [k \in 1..n |-> c]

\* ------------------------------------------------------------------------
\* Encoding helpers (utf8ToWide, wideToUtf8)
\* ------------------------------------------------------------------------

ReplacementChar == 65533

IsCont(b, k) == k <= Len(b) /\ b[k] >= 128 /\ b[k] < 192

\* One decoding step of the platform's UTF-8 decoder: <<code point, bytes used>>.
\* A byte that does not start a well-formed sequence decodes to U+FFFD.
Utf8Step(b) ==
    LET b1 == b[1] IN
    IF b1 < 128 THEN <<b1, 1>>
    ELSE IF b1 >= 194 /\ b1 < 224 /\ IsCont(b, 2)
        THEN <<(b1 - 192) * 64 + (b[2] - 128), 2>>
    ELSE IF b1 >= 224 /\ b1 < 240 /\ IsCont(b, 2) /\ IsCont(b, 3)
        THEN LET cp == (b1 - 224) * 4096 + (b[2] - 128) * 64 + (b[3] - 128) IN
             IF cp < 2048 \/ (cp >= 55296 /\ cp < 57344)
                 THEN <<ReplacementChar, 1>> ELSE <<cp, 3>>
    ELSE IF b1 >= 240 /\ b1 < 245 /\ IsCont(b, 2) /\ IsCont(b, 3) /\ IsCont(b, 4)
        THEN LET cp == (b1 - 240) * 262144 + (b[2] - 128) * 4096
                       + (b[3] - 128) * 64 + (b[4] - 128) IN
             IF cp < 65536 \/ cp > 1114111
                 THEN <<ReplacementChar, 1>> ELSE <<cp, 4>>
    ELSE <<ReplacementChar, 1>>

\* UTF-16 code units of one code point
Utf16Units(cp) ==
    IF cp < 65536 THEN <<cp>>
    ELSE <<55296 + ((cp - 65536) \div 1024), 56320 + ((cp - 65536) % 1024)>>

\* A decoding step never ends inside a run of continuation bytes, so a text
\* may be cut before any byte that is not a continuation byte; a long text
\* is cut near its middle, a short one is decoded step by step.
Utf8Cut(b) ==
    LET half == Len(b) \div 2
        cuts == {k \in (half + 1)..Min(half + 4, Len(b)) : ~IsCont(b, k)} IN
    IF Len(b) < 8 \/ cuts = {} THEN Utf8Step(b)[2]
    ELSE (CHOOSE k \in cuts : \A j \in cuts : k <= j) - 1

RECURSIVE MultiByteToWideChar(_)
MultiByteToWideChar(b) ==
    IF b = <<>> THEN <<>>
    ELSE IF Utf8Step(b)[2] = Len(b) THEN Utf16Units(Utf8Step(b)[1])
    ELSE LET cut == Utf8Cut(b) IN
         MultiByteToWideChar(SubSeq(b, 1, cut))
             \o MultiByteToWideChar(SubSeq(b, cut + 1, Len(b)))

IsHigh(u) == u >= 55296 /\ u < 56320

IsLow(u) == u >= 56320 /\ u < 57344

\* One decoding step of the platform's UTF-16 decoder: <<code point, units used>>.
\* An unpaired surrogate decodes to U+FFFD.
Utf16Step(w) ==
    LET u == w[1] IN
    IF IsHigh(u) /\ Len(w) >= 2 /\ IsLow(w[2])
        THEN <<65536 + (u - 55296) * 1024 + (w[2] - 56320), 2>>
    ELSE IF u >= 55296 /\ u < 57344 THEN <<ReplacementChar, 1>>
    ELSE <<u, 1>>

\* UTF-8 bytes of one code point
Utf8Bytes(cp) ==
    IF cp < 128 THEN <<cp>>
    ELSE IF cp < 2048 THEN <<192 + (cp \div 64), 128 + (cp % 64)>>
    ELSE IF cp < 65536
        THEN <<224 + (cp \div 4096), 128 + ((cp \div 64) % 64), 128 + (cp % 64)>>
    ELSE <<240 + (cp \div 262144), 128 + ((cp \div 4096) % 64),
           128 + ((cp \div 64) % 64), 128 + (cp % 64)>>

\* The conversion of a text is the concatenation of the conversions of its
\* two halves, cut where no surrogate pair is split.
RECURSIVE WideCharToMultiByte(_)
WideCharToMultiByte(w) ==
    IF w = <<>> THEN <<>>
    ELSE IF Utf16Step(w)[2] = Len(w) THEN Utf8Bytes(Utf16Step(w)[1])
    ELSE LET half == Len(w) \div 2
             cut == IF IsHigh(w[half]) /\ IsLow(w[half + 1])
                    THEN half + 1 ELSE half IN
         WideCharToMultiByte(SubSeq(w, 1, cut))
             \o WideCharToMultiByte(SubSeq(w, cut + 1, Len(w)))

\* The platform primitive fails on the texts in bad (an input of the
\* environment); the helpers never hand it the empty text.
Utf8Throws(utf8, bad) == utf8 # <<>> /\ utf8 \in bad

utf8ToWide(utf8) == IF utf8 = <<>> THEN <<>> ELSE MultiByteToWideChar(utf8)

WideThrows(wide, bad) == wide # <<>> /\ wide \in bad

\* the length handed to the primitive one unit short
wideToUtf8_Mut(wide) ==
    IF wide = <<>> THEN <<>>
    ELSE WideCharToMultiByte(SubSeq(wide, 1, Len(wide) - 1))

wideToUtf8(wide) == IF wide = <<>> THEN <<>> ELSE WideCharToMultiByte(wide)

\* A C string read from a buffer ends at the first terminator (c_str(),
\* construction of a string from a WCHAR pointer).
CStr(s) ==
    LET nuls == {k \in 1..Len(s) : s[k] = 0} IN
    IF nuls = {} THEN s
    ELSE SubSeq(s, 1, (CHOOSE k \in nuls : \A j \in nuls : k <= j) - 1)

\* ------------------------------------------------------------------------
\* Inputs of the environment
\* ------------------------------------------------------------------------

Threads == {"main", "second"}

Titles == {<<>>, <<84>>}

Messages == {<<>>, <<77>>}

\* option lists: (id, label) pairs; ids 0 and -1 and a repeated id are allowed
OptionLists ==
    { <<>>,
      << <<7, <<89>>>> >>,
      << <<7, <<89>>>>, <<8, <<195, 169>>>> >>,
      << <<0, <<89>>>>, <<-1, <<>>>>, <<7, <<78>>>>, <<7, <<89>>>> >> }

\* texts on which the platform's conversion primitive fails during one call
BadSets == { {}, {<<89>>}, {<<77>>} }

\* client-area sizes reported by resize events
ClientSizes == { <<380, 100>>, <<380, 140>>, <<200, 60>> }

\* what the frame and the caption of a dialog window take of its size
NonClientSizes == { <<6, 29>>, <<16, 39>> }

\* ------------------------------------------------------------------------
\* Option message box: process-wide state, MessageBoxDialogProc, messageBox
\* ------------------------------------------------------------------------

BTN_START == 2000

MSGBOX_BTN_WIDTH == 100

IDC_MSG == 1001

\* the null handle of a child control
NullCtl == <<0, 0>>

\* control ids carried by command messages
CommandIds == {BTN_START - 1, BTN_START, BTN_START + 1, BTN_START + 2,
               BTN_START + 3, BTN_START + 4, IDC_MSG}

VARIABLES
    g_options,          \* staged options: sequence of <<id, wide label>>
    g_msgContent,       \* staged message (wide)
    g_boxTitle,         \* staged title (wide)
    g_selectedId,       \* id chosen by the window procedure
    hStaticMsg,         \* static of MessageBoxDialogProc: the label control
    hButtons,           \* static of MessageBoxDialogProc: the button handles
    hFont,              \* static of MessageBoxDialogProc: the font, 0 = NULL
    mbClass,            \* "CustomMessageBoxClass" is registered
    mbWindows,          \* live message-box windows: window -> owning thread
    mbCtlPos,           \* live child controls: handle -> <<x, y, cx, cy>>
    mbClient,           \* client size the last WM_SIZE of a live window reported
    mbCalls,            \* number of messageBox calls made so far
    mbCallNo,           \* per thread: number of its current (or last) call
    mbTrace,            \* outcomes of the completed calls, in order
    mbPc,               \* per thread: position inside messageBox
    mbArgs,             \* per thread: the options argument of the call
    mbDlg,              \* per thread: hDlg of the call, 0 = NULL
    mbResult,           \* per thread: outcome of the last call
    mbLast,             \* per thread: last message dispatched by the call's pump
    mbSeen              \* per thread: kinds of messages the pump dispatched before

mbVars == <<g_options, g_msgContent, g_boxTitle, g_selectedId, hStaticMsg,
            hButtons, hFont, mbClass, mbWindows, mbCtlPos, mbClient, mbCalls,
            mbCallNo, mbTrace, mbPc, mbArgs, mbDlg, mbResult, mbLast, mbSeen>>

NoResult == [kind |-> "none", val |-> 0]

Returned(v) == [kind |-> "return", val |-> v]

Thrown(k) == [kind |-> k, val |-> 0]

MbInit ==
    /\ g_options = <<>>
    /\ g_msgContent = <<>>
    /\ g_boxTitle = <<>>
    /\ g_selectedId = 0
    /\ hStaticMsg = NullCtl
    /\ hButtons = <<>>
    /\ hFont = 0
    /\ mbClass = FALSE
    /\ mbWindows = <<>>
    /\ mbCtlPos = <<>>
    /\ mbClient = <<>>
    /\ mbCalls = 0
    /\ mbCallNo = [t \in Threads |-> 0]
    /\ mbTrace = <<>>
    /\ mbPc = [t \in Threads |-> "idle"]
    /\ mbArgs = [t \in Threads |-> <<>>]
    /\ mbDlg = [t \in Threads |-> 0]
    /\ mbResult = [t \in Threads |-> NoResult]
    /\ mbLast = [t \in Threads |-> <<"none", 0, 0>>]
    /\ mbSeen = [t \in Threads |-> {}]

\* g_options.emplace_back(opt.first, utf8ToWide(opt.second)) for each option,
\* stopping at the first label whose conversion throws
RECURSIVE StageOptions(_, _)
StageOptions(options, bad) ==
    IF options = <<>> \/ Utf8Throws(options[1][2], bad) THEN <<>>
    ELSE << <<options[1][1], utf8ToWide(options[1][2])>> >>
         \o StageOptions(Tail(options), bad)

\* the call of thread t ends with outcome r
MbDone(t, r) ==
    /\ mbResult' = [mbResult EXCEPT ![t] = r]
    /\ mbTrace' = Append(mbTrace, r)

\* the entry check left out
RejectsOptions_Mut(options) == FALSE

\* if(options.empty()) return -1;
RejectsOptions(options) == options = <<>>

\* the selected id left as an earlier invocation set it
SelectedIdAtStaging_Mut(previous) == previous

\* g_selectedId = 0;
SelectedIdAtStaging(previous) == 0

\* messageBox, from its entry to the end of the staging of its arguments
MbCall(t, title, message, options, bad) ==
    /\ mbPc[t] = "idle"
    /\ mbCalls < MaxCalls
    /\ mbCalls' = mbCalls + 1
    /\ mbCallNo' = [mbCallNo EXCEPT ![t] = mbCalls + 1]
    /\ mbArgs' = [mbArgs EXCEPT ![t] = options]
    /\ mbDlg' = [mbDlg EXCEPT ![t] = 0]
    /\ mbLast' = [mbLast EXCEPT ![t] = <<"none", 0, 0>>]
    /\ mbSeen' = [mbSeen EXCEPT ![t] = {}]
    /\ UNCHANGED <<hStaticMsg, hButtons, hFont, mbClass, mbWindows, mbCtlPos,
                   mbClient>>
    /\ IF RejectsOptions(options)
       THEN /\ MbDone(t, Returned(-1))
            /\ UNCHANGED <<g_options, g_msgContent, g_boxTitle, g_selectedId, mbPc>>
       ELSE LET staged == StageOptions(options, bad) IN
            /\ g_options' = staged
            /\ IF Len(staged) < Len(options)
               THEN /\ MbDone(t, Thrown("runtime_error"))
                    /\ UNCHANGED <<g_msgContent, g_boxTitle, g_selectedId, mbPc>>
               ELSE IF Utf8Throws(message, bad)
               THEN /\ MbDone(t, Thrown("runtime_error"))
                    /\ UNCHANGED <<g_msgContent, g_boxTitle, g_selectedId, mbPc>>
               ELSE IF Utf8Throws(title, bad)
               THEN /\ g_msgContent' = utf8ToWide(message)
                    /\ MbDone(t, Thrown("runtime_error"))
                    /\ UNCHANGED <<g_boxTitle, g_selectedId, mbPc>>
               ELSE /\ g_msgContent' = utf8ToWide(message)
                    /\ g_boxTitle' = utf8ToWide(title)
                    /\ g_selectedId' = SelectedIdAtStaging(g_selectedId)
                    /\ mbResult' = [mbResult EXCEPT ![t] = NoResult]
                    /\ mbPc' = [mbPc EXCEPT ![t] = "staged"]
                    /\ UNCHANGED mbTrace

\* handles of the buttons WM_CREATE makes for window w from g_options
NewButtons(w, n) == [i \in 1..n |-> <<w, BTN_START + (i - 1)>>]

\* children of window w among the live controls
ChildrenOf(w, ctl) == {h \in DOMAIN ctl : h[1] = w}

Restrict(f, S) == [x \in S |-> f[x]]

\* SetWindowPos: moves a live control, fails on any other handle
SetWindowPos(ctl, h, pos) ==
    IF h \in DOMAIN ctl THEN [ctl EXCEPT ![h] = pos] ELSE ctl

\* messageBox: RegisterClassExW and CreateWindowExW, the latter running the
\* WM_CREATE case of MessageBoxDialogProc before it returns
MbCreate(t, regOk, createOk, fontOk) ==
    /\ mbPc[t] = "staged"
    /\ UNCHANGED <<g_options, g_msgContent, g_boxTitle, g_selectedId, mbClient,
                   mbCalls, mbCallNo, mbArgs, mbLast, mbSeen>>
    /\ IF mbClass \/ ~regOk
       THEN /\ MbDone(t, Returned(0))
            /\ mbPc' = [mbPc EXCEPT ![t] = "idle"]
            /\ UNCHANGED <<hStaticMsg, hButtons, hFont, mbClass, mbWindows,
                           mbCtlPos, mbDlg>>
       ELSE /\ mbClass' = TRUE
            /\ UNCHANGED <<mbResult, mbTrace>>
            /\ IF ~createOk
               THEN /\ mbPc' = [mbPc EXCEPT ![t] = "exit"]
                    /\ UNCHANGED <<hStaticMsg, hButtons, hFont, mbWindows,
                                   mbCtlPos, mbDlg>>
               ELSE LET w == mbCallNo[t]
                        btns == NewButtons(w, Len(g_options))
                        made == {<<w, IDC_MSG>>} \cup Range(btns) IN
                    /\ hFont' = IF fontOk THEN w ELSE 0
                    /\ hStaticMsg' = <<w, IDC_MSG>>
                    /\ hButtons' = hButtons \o btns
                    /\ mbCtlPos' = [h \in DOMAIN mbCtlPos \cup made |->
                            IF h \in made
                            THEN IF h = <<w, IDC_MSG>>
                                 THEN <<20, 20, 360, 26>>
                                 ELSE <<20, 120, MSGBOX_BTN_WIDTH, 30>>
                            ELSE mbCtlPos[h]]
                    /\ mbWindows' = [x \in DOMAIN mbWindows \cup {w} |->
                            IF x = w THEN t ELSE mbWindows[x]]
                    /\ mbDlg' = [mbDlg EXCEPT ![t] = w]
                    /\ mbPc' = [mbPc EXCEPT ![t] = "pump"]

\* rows of four buttons
ButtonPos_Mut(i, clientHeight) ==
    <<20 + (i % 4) * (MSGBOX_BTN_WIDTH + 20),
      (clientHeight - 30 - 20) - (i \div 4) * 40, MSGBOX_BTN_WIDTH, 30>>

\* the rectangle WM_SIZE gives to button i (0-based)
ButtonPos(i, clientHeight) ==
    LET btnWidth == MSGBOX_BTN_WIDTH
        btnHeight == 30
        spacing == 20
        startX == 20
        startY == clientHeight - btnHeight - 20 IN
    <<startX + (i % 3) * (btnWidth + spacing), startY - (i \div 3) * 40,
      btnWidth, btnHeight>>

\* the WM_SIZE loop over hButtons, from index i (0-based) on
RECURSIVE LayoutButtons(_, _, _, _)
LayoutButtons(ctl, btns, i, clientHeight) ==
    IF i >= Len(btns) THEN ctl
    ELSE LayoutButtons(SetWindowPos(ctl, btns[i + 1], ButtonPos(i, clientHeight)),
                       btns, i + 1, clientHeight)

\* the size messageBox gives its window for n options
WindowSize(n) ==
    LET windowWidth == (MSGBOX_BTN_WIDTH + 20) * 3 + 20
        windowHeight == 140 + 40 * ((n - 1) \div 3) IN
    <<windowWidth, windowHeight>>

\* the client area of a window whose frame and caption take nc
ClientSizeOf(windowSize, nc) == <<windowSize[1] - nc[1], windowSize[2] - nc[2]>>

\* a message is dispatched to window w by the pump of the thread that owns it
MbDispatches(t, w) ==
    /\ mbPc[t] = "pump"
    /\ w \in DOMAIN mbWindows
    /\ mbWindows[w] = t

\* MessageBoxDialogProc, case WM_SIZE
MbWmSize(t, w, size) ==
    /\ MbDispatches(t, w)
    /\ LET clientWidth == size[1]
           clientHeight == size[2]
           p1 == IF hStaticMsg # NullCtl
                 THEN SetWindowPos(mbCtlPos, hStaticMsg,
                                   <<20, 20, clientWidth - 40, 26>>)
                 ELSE mbCtlPos IN
       mbCtlPos' = IF hButtons # <<>>
                   THEN LayoutButtons(p1, hButtons, 0, clientHeight)
                   ELSE p1
    /\ mbClient' = [x \in DOMAIN mbClient \cup {w} |->
                        IF x = w THEN size ELSE mbClient[x]]
    /\ mbLast' = [mbLast EXCEPT ![t] = <<"size", w, 0>>]
    /\ mbSeen' = [mbSeen EXCEPT ![t] = @ \cup {"size"}]
    /\ UNCHANGED <<g_options, g_msgContent, g_boxTitle, g_selectedId,
                   hStaticMsg, hButtons, hFont, mbClass, mbWindows, mbCalls,
                   mbCallNo, mbTrace, mbPc, mbArgs, mbDlg, mbResult>>

\* WM_DESTROY without PostQuitMessage(0): the pump goes on
MbDestroyWindow_Mut(t, w) ==
    /\ hFont' = 0
    /\ hButtons' = <<>>
    /\ mbWindows' = Restrict(mbWindows, DOMAIN mbWindows \ {w})
    /\ mbCtlPos' = Restrict(mbCtlPos, DOMAIN mbCtlPos \ ChildrenOf(w, mbCtlPos))
    /\ mbClient' = Restrict(mbClient, DOMAIN mbClient \ {w})
    /\ UNCHANGED mbPc

\* DestroyWindow(hDlg) with the WM_DESTROY case of MessageBoxDialogProc; the
\* quit message it posts ends the pump of the calling thread
MbDestroyWindow(t, w) ==
    /\ hFont' = 0
    /\ hButtons' = <<>>
    /\ mbWindows' = Restrict(mbWindows, DOMAIN mbWindows \ {w})
    /\ mbCtlPos' = Restrict(mbCtlPos, DOMAIN mbCtlPos \ ChildrenOf(w, mbCtlPos))
    /\ mbClient' = Restrict(mbClient, DOMAIN mbClient \ {w})
    /\ mbPc' = [mbPc EXCEPT ![t] = "exit"]

\* the id of the first option whatever button was pressed
OptionIdAt_Mut(options, index) == options[1][1]

\* g_options[index].first
OptionIdAt(options, index) == options[index + 1][1]

\* MessageBoxDialogProc, case WM_COMMAND
MbWmCommand(t, w, btnId) ==
    /\ MbDispatches(t, w)
    /\ UNCHANGED <<g_options, g_msgContent, g_boxTitle, hStaticMsg, mbClass,
                   mbCalls, mbCallNo, mbTrace, mbArgs, mbDlg, mbResult>>
    /\ IF btnId >= BTN_START /\ btnId < BTN_START + Len(g_options)
       THEN LET index == btnId - BTN_START IN
            /\ g_selectedId' = OptionIdAt(g_options, index)
            /\ MbDestroyWindow(t, w)
            /\ mbLast' = [mbLast EXCEPT ![t] = <<"command", w, btnId>>]
            /\ UNCHANGED mbSeen
       ELSE /\ mbSeen' = [mbSeen EXCEPT ![t] = @ \cup {"ignored"}]
            /\ mbLast' = [mbLast EXCEPT ![t] = <<"ignored", w, btnId>>]
            /\ UNCHANGED <<g_selectedId, hButtons, hFont, mbWindows, mbCtlPos,
                           mbClient, mbPc>>

\* WM_CLOSE reporting the failure sentinel instead of the reserved id 0
MbWmClose_Mut(t, w) ==
    /\ MbDispatches(t, w)
    /\ g_selectedId' = -1
    /\ MbDestroyWindow(t, w)
    /\ mbLast' = [mbLast EXCEPT ![t] = <<"close", w, 0>>]
    /\ UNCHANGED <<g_options, g_msgContent, g_boxTitle, hStaticMsg, mbClass,
                   mbCalls, mbCallNo, mbTrace, mbArgs, mbDlg, mbResult, mbSeen>>

\* MessageBoxDialogProc, case WM_CLOSE
MbWmClose(t, w) ==
    /\ MbDispatches(t, w)
    /\ g_selectedId' = 0
    /\ MbDestroyWindow(t, w)
    /\ mbLast' = [mbLast EXCEPT ![t] = <<"close", w, 0>>]
    /\ UNCHANGED <<g_options, g_msgContent, g_boxTitle, hStaticMsg, mbClass,
                   mbCalls, mbCallNo, mbTrace, mbArgs, mbDlg, mbResult, mbSeen>>

\* the pump of messageBox retrieves a quit message that no handler of this
\* window posted: GetMessageW returns 0 and the loop ends
MbQuit(t) ==
    /\ mbPc[t] = "pump"
    /\ mbPc' = [mbPc EXCEPT ![t] = "exit"]
    /\ mbLast' = [mbLast EXCEPT ![t] = <<"quit", 0, 0>>]
    /\ UNCHANGED <<g_options, g_msgContent, g_boxTitle, g_selectedId,
                   hStaticMsg, hButtons, hFont, mbClass, mbWindows, mbCtlPos,
                   mbClient, mbCalls, mbCallNo, mbTrace, mbArgs, mbDlg, mbResult,
                   mbSeen>>

\* messageBox after its pump: UnregisterClassW (which fails while a window of
\* the class exists), g_options.clear(), return g_selectedId
MbReturn(t) ==
    /\ mbPc[t] = "exit"
    /\ mbClass' = (DOMAIN mbWindows # {})
    /\ g_options' = <<>>
    /\ MbDone(t, Returned(g_selectedId))
    /\ mbPc' = [mbPc EXCEPT ![t] = "idle"]
    /\ UNCHANGED <<g_msgContent, g_boxTitle, g_selectedId, hStaticMsg,
                   hButtons, hFont, mbWindows, mbCtlPos, mbClient, mbCalls,
                   mbCallNo, mbArgs, mbDlg, mbLast, mbSeen>>

\* ------------------------------------------------------------------------
\* Prompt dialog: process-wide state, PromptDialogProc, promptDialog
\* ------------------------------------------------------------------------

IDC_PROMPT == 1001

IDC_INPUT == 1002

IDOK == 1003

IDCANCEL == 1004

\* WCHAR buffer[256] of the WM_COMMAND case, new wchar_t[256] of promptDialog
INPUT_BUFFER_LEN == 256

\* default contents handed to promptDialog (UTF-8)
DefaultContents == {<<>>, <<89>>}

\* texts the user leaves in the input box (wide): "", e-acute, and two texts
\* of 255 and of 256 letters
EditTexts == {<<>>, <<233>>, Repeat(97, INPUT_BUFFER_LEN - 1),
              Repeat(97, INPUT_BUFFER_LEN)}

\* what a read of a buffer that was never written may yield
UninitTexts == {<<>>, <<63>>}

PrClientSizes == { <<175, 60>> }

PrCommandIds == {IDC_PROMPT, IDC_INPUT, IDOK, IDCANCEL}

VARIABLES
    g_inputText,        \* pointer to the input-text buffer, 0 = nullptr
    g_defalutContent,   \* staged default content (wide)
    g_message,          \* staged prompt text (wide)
    g_did_confirm,      \* set by the window procedure
    hStaticPrompt,      \* statics of PromptDialogProc: the four controls
    hEditInput,
    hButtonOK,
    hButtonCancel,
    prHeap,             \* buffers made by new wchar_t[256]: live, written, text
    prClass,            \* "PromptDialogClass" is registered
    prWindows,          \* live prompt windows: window -> owning thread
    prEdit,             \* live prompt windows: window -> text of its input box
    prCtlPos,           \* live child controls: handle -> <<x, y, cx, cy>>
    prCalls,            \* number of promptDialog calls made so far
    prCallNo,           \* per thread: number of its current (or last) call
    prTrace,            \* outcomes of the completed calls, in order
    prPc,               \* per thread: position inside promptDialog
    prArgs,             \* per thread: title, message, defaultContent
    prDlg,              \* per thread: hDlg of the call, 0 = NULL
    prOutput,           \* per thread: the caller's output string
    prResult,           \* per thread: outcome of the last call
    prLast              \* per thread: last message dispatched by the call's pump

prVars == <<g_inputText, g_defalutContent, g_message, g_did_confirm,
            hStaticPrompt, hEditInput, hButtonOK, hButtonCancel, prHeap,
            prClass, prWindows, prEdit, prCtlPos, prCalls, prCallNo, prTrace,
            prPc, prArgs, prDlg, prOutput, prResult, prLast>>

PrInit ==
    /\ g_inputText = 0
    /\ g_defalutContent = <<>>
    /\ g_message = <<>>
    /\ g_did_confirm = FALSE
    /\ hStaticPrompt = NullCtl
    /\ hEditInput = NullCtl
    /\ hButtonOK = NullCtl
    /\ hButtonCancel = NullCtl
    /\ prHeap = <<>>
    /\ prClass = FALSE
    /\ prWindows = <<>>
    /\ prEdit = <<>>
    /\ prCtlPos = <<>>
    /\ prCalls = 0
    /\ prCallNo = [t \in Threads |-> 0]
    /\ prTrace = <<>>
    /\ prPc = [t \in Threads |-> "idle"]
    /\ prArgs = [t \in Threads |-> <<>>]
    /\ prDlg = [t \in Threads |-> 0]
    /\ prOutput = [t \in Threads |-> <<>>]
    /\ prResult = [t \in Threads |-> NoResult]
    /\ prLast = [t \in Threads |-> <<"none", 0, <<>>>>]

\* the call of thread t ends with outcome r
PrDone(t, r) ==
    /\ prResult' = [prResult EXCEPT ![t] = r]
    /\ prTrace' = Append(prTrace, r)
    /\ prPc' = [prPc EXCEPT ![t] = "idle"]

\* new wchar_t[256]: a live buffer whose content was never written
NewBuffer == [live |-> TRUE, written |-> FALSE, text |-> <<>>]

\* promptDialog, from its entry to the staging of message and defaultContent
PrCall(t, title, message, defaultContent, bad, regOk) ==
    /\ prPc[t] = "idle"
    /\ prCalls < MaxCalls
    /\ prCalls' = prCalls + 1
    /\ prCallNo' = [prCallNo EXCEPT ![t] = prCalls + 1]
    /\ prArgs' = [prArgs EXCEPT ![t] = <<title, message, defaultContent>>]
    /\ prDlg' = [prDlg EXCEPT ![t] = 0]
    /\ prLast' = [prLast EXCEPT ![t] = <<"none", 0, <<>>>>]
    /\ prClass' = (prClass \/ regOk)
    /\ g_inputText' = prCalls + 1
    /\ prHeap' = [b \in DOMAIN prHeap \cup {prCalls + 1} |->
                    IF b = prCalls + 1 THEN NewBuffer ELSE prHeap[b]]
    /\ UNCHANGED <<g_did_confirm, hStaticPrompt, hEditInput, hButtonOK,
                   hButtonCancel, prWindows, prEdit, prCtlPos, prOutput>>
    /\ IF Utf8Throws(message, bad)
       THEN /\ PrDone(t, Thrown("runtime_error"))
            /\ UNCHANGED <<g_message, g_defalutContent>>
       ELSE /\ g_message' = utf8ToWide(message)
            /\ IF Utf8Throws(defaultContent, bad)
               THEN /\ PrDone(t, Thrown("runtime_error"))
                    /\ UNCHANGED g_defalutContent
               ELSE /\ g_defalutContent' = utf8ToWide(defaultContent)
                    /\ prResult' = [prResult EXCEPT ![t] = NoResult]
                    /\ prPc' = [prPc EXCEPT ![t] = "staged"]
                    /\ UNCHANGED prTrace

\* the four controls made by the WM_CREATE case, with their first geometry
PrControls(w) ==
    [h \in {<<w, IDC_PROMPT>>, <<w, IDC_INPUT>>, <<w, IDOK>>, <<w, IDCANCEL>>} |->
        IF h[2] = IDC_PROMPT THEN <<20, 20, 260, 25>>
        ELSE IF h[2] = IDC_INPUT THEN <<20, 50, 360, 30>>
        ELSE IF h[2] = IDOK THEN <<120, 95, 80, 30>>
        ELSE <<220, 95, 80, 30>>]

\* promptDialog: CreateWindowExW (after the conversion of the title), which
\* runs the WM_CREATE case of PromptDialogProc before it returns
PrCreate(t, bad, createOk) ==
    /\ prPc[t] = "staged"
    /\ UNCHANGED <<g_inputText, g_defalutContent, g_message, g_did_confirm,
                   prHeap, prClass, prCalls, prCallNo, prArgs, prOutput,
                   prLast>>
    /\ IF Utf8Throws(prArgs[t][1], bad)
       THEN /\ PrDone(t, Thrown("runtime_error"))
            /\ UNCHANGED <<hStaticPrompt, hEditInput, hButtonOK, hButtonCancel,
                           prWindows, prEdit, prCtlPos, prDlg>>
       ELSE /\ UNCHANGED <<prResult, prTrace>>
            /\ IF ~prClass \/ ~createOk
               THEN /\ prPc' = [prPc EXCEPT ![t] = "exit"]
                    /\ UNCHANGED <<hStaticPrompt, hEditInput, hButtonOK,
                                   hButtonCancel, prWindows, prEdit, prCtlPos,
                                   prDlg>>
               ELSE LET w == prCallNo[t]
                        made == PrControls(w) IN
                    /\ hStaticPrompt' = <<w, IDC_PROMPT>>
                    /\ hEditInput' = <<w, IDC_INPUT>>
                    /\ hButtonOK' = <<w, IDOK>>
                    /\ hButtonCancel' = <<w, IDCANCEL>>
                    /\ prCtlPos' = [h \in DOMAIN prCtlPos \cup DOMAIN made |->
                            IF h \in DOMAIN made THEN made[h] ELSE prCtlPos[h]]
                    /\ prWindows' = [x \in DOMAIN prWindows \cup {w} |->
                            IF x = w THEN t ELSE prWindows[x]]
                    /\ prEdit' = [x \in DOMAIN prEdit \cup {w} |->
                            IF x = w THEN CStr(g_defalutContent) ELSE prEdit[x]]
                    /\ prDlg' = [prDlg EXCEPT ![t] = w]
                    /\ prPc' = [prPc EXCEPT ![t] = "pump"]

\* a message is dispatched to window w by the pump of the thread that owns it
PrDispatches(t, w) ==
    /\ prPc[t] = "pump"
    /\ w \in DOMAIN prWindows
    /\ prWindows[w] = t

\* the user edits the text of the input box of window w (handled by the
\* edit control itself)
PrType(t, w, text) ==
    /\ PrDispatches(t, w)
    /\ prEdit[w] # text
    /\ prEdit' = [prEdit EXCEPT ![w] = text]
    /\ UNCHANGED <<g_inputText, g_defalutContent, g_message, g_did_confirm,
                   hStaticPrompt, hEditInput, hButtonOK, hButtonCancel, prHeap,
                   prClass, prWindows, prCtlPos, prCalls, prCallNo, prTrace,
                   prPc, prArgs, prDlg, prOutput, prResult, prLast>>

\* integer division of C++: the quotient is truncated towards zero
CDiv(a, b) == IF a >= 0 THEN a \div b ELSE -((-a) \div b)

\* PromptDialogProc, case WM_SIZE
PrWmSize(t, w, size) ==
    /\ PrDispatches(t, w)
    /\ LET clientWidth == size[1]
           clientHeight == size[2]
           p1 == IF hStaticPrompt # NullCtl
                 THEN SetWindowPos(prCtlPos, hStaticPrompt,
                                   <<20, 20, clientWidth - 40, 25>>)
                 ELSE prCtlPos
           p2 == IF hEditInput # NullCtl
                 THEN SetWindowPos(p1, hEditInput, <<20, 55, clientWidth - 40, 30>>)
                 ELSE p1
           buttonWidth == 80
           buttonHeight == 30
           buttonY == clientHeight - buttonHeight - 15
           totalButtonWidth == buttonWidth * 2 + 20
           startX == CDiv(clientWidth - totalButtonWidth, 2) IN
       prCtlPos' = IF hButtonOK # NullCtl /\ hButtonCancel # NullCtl
                   THEN SetWindowPos(
                            SetWindowPos(p2, hButtonOK,
                                <<startX, buttonY, buttonWidth, buttonHeight>>),
                            hButtonCancel,
                            <<startX + buttonWidth + 20, buttonY, buttonWidth,
                              buttonHeight>>)
                   ELSE p2
    /\ prLast' = [prLast EXCEPT ![t] = <<"size", w, <<>>>>]
    /\ UNCHANGED <<g_inputText, g_defalutContent, g_message, g_did_confirm,
                   hStaticPrompt, hEditInput, hButtonOK, hButtonCancel, prHeap,
                   prClass, prWindows, prEdit, prCalls, prCallNo, prTrace,
                   prPc, prArgs, prDlg, prOutput, prResult>>

\* DestroyWindow(hDlg) with the WM_DESTROY case of PromptDialogProc; the
\* quit message it posts ends the pump of the calling thread
PrDestroyWindow(t, w) ==
    /\ prWindows' = Restrict(prWindows, DOMAIN prWindows \ {w})
    /\ prEdit' = Restrict(prEdit, DOMAIN prEdit \ {w})
    /\ prCtlPos' = Restrict(prCtlPos, DOMAIN prCtlPos \ ChildrenOf(w, prCtlPos))
    /\ prPc' = [prPc EXCEPT ![t] = "exit"]

\* GetDlgItemTextW(hDlg, IDC_INPUT, buffer, 256): at most 255 characters
GetDlgItemTextW(text, nMaxCount) == SubSeq(text, 1, Min(Len(text), nMaxCount - 1))

\* wcscpy(g_inputText, text): the buffer g_inputText points to holds text
WcscpyInput(text) ==
    IF g_inputText \in DOMAIN prHeap
    THEN [prHeap EXCEPT ![g_inputText].written = TRUE, ![g_inputText].text = text]
    ELSE prHeap

\* every command but OK taken as Cancel
PrCommandCase_Mut(id) == IF id = IDOK THEN "IDOK" ELSE "IDCANCEL"

\* the case of the switch over LOWORD(wParam) a command id selects
PrCommandCase(id) ==
    IF id = IDOK THEN "IDOK" ELSE IF id = IDCANCEL THEN "IDCANCEL" ELSE "none"

\* PromptDialogProc, case WM_COMMAND
PrWmCommand(t, w, id) ==
    /\ PrDispatches(t, w)
    /\ UNCHANGED <<g_inputText, g_defalutContent, g_message, hStaticPrompt,
                   hEditInput, hButtonOK, hButtonCancel, prClass, prCalls,
                   prCallNo, prTrace, prArgs, prDlg, prOutput, prResult>>
    /\ IF PrCommandCase(id) = "IDOK"
       THEN LET buffer == GetDlgItemTextW(prEdit[w], INPUT_BUFFER_LEN) IN
            /\ prHeap' = WcscpyInput(buffer)
            /\ g_did_confirm' = TRUE
            /\ PrDestroyWindow(t, w)
            /\ prLast' = [prLast EXCEPT ![t] = <<"ok", w, prEdit[w]>>]
       ELSE IF PrCommandCase(id) = "IDCANCEL"
       THEN /\ prHeap' = WcscpyInput(<<>>)
            /\ g_did_confirm' = FALSE
            /\ PrDestroyWindow(t, w)
            /\ prLast' = [prLast EXCEPT ![t] = <<"cancel", w, prEdit[w]>>]
       ELSE /\ prLast' = [prLast EXCEPT ![t] = <<"ignored", w, <<>>>>]
            /\ UNCHANGED <<g_did_confirm, prHeap, prWindows, prEdit, prCtlPos,
                           prPc>>

\* WM_CLOSE leaving g_did_confirm as an earlier call set it
PrWmClose_Mut(t, w) ==
    /\ PrDispatches(t, w)
    /\ prHeap' = WcscpyInput(<<>>)
    /\ PrDestroyWindow(t, w)
    /\ prLast' = [prLast EXCEPT ![t] = <<"close", w, prEdit[w]>>]
    /\ UNCHANGED <<g_inputText, g_defalutContent, g_message, g_did_confirm,
                   hStaticPrompt, hEditInput, hButtonOK, hButtonCancel, prClass,
                   prCalls, prCallNo, prTrace, prArgs, prDlg, prOutput, prResult>>

\* PromptDialogProc, case WM_CLOSE
PrWmClose(t, w) ==
    /\ PrDispatches(t, w)
    /\ prHeap' = WcscpyInput(<<>>)
    /\ g_did_confirm' = FALSE
    /\ PrDestroyWindow(t, w)
    /\ prLast' = [prLast EXCEPT ![t] = <<"close", w, prEdit[w]>>]
    /\ UNCHANGED <<g_inputText, g_defalutContent, g_message, hStaticPrompt,
                   hEditInput, hButtonOK, hButtonCancel, prClass, prCalls,
                   prCallNo, prTrace, prArgs, prDlg, prOutput, prResult>>

\* the pump of promptDialog retrieves a quit message that no handler of this
\* window posted: GetMessageW returns 0 and the loop ends
PrQuit(t) ==
    /\ prPc[t] = "pump"
    /\ prPc' = [prPc EXCEPT ![t] = "exit"]
    /\ prLast' = [prLast EXCEPT ![t] = <<"quit", 0, <<>>>>]
    /\ UNCHANGED <<g_inputText, g_defalutContent, g_message, g_did_confirm,
                   hStaticPrompt, hEditInput, hButtonOK, hButtonCancel, prHeap,
                   prClass, prWindows, prEdit, prCtlPos, prCalls, prCallNo,
                   prTrace, prArgs, prDlg, prOutput, prResult>>

\* the texts a read of the string at g_inputText can yield: the text written
\* last, or anything when the buffer was never written or was freed (where
\* the text written last may still be found)
InputTextReads ==
    IF g_inputText \in DOMAIN prHeap /\ prHeap[g_inputText].written
    THEN IF prHeap[g_inputText].live
         THEN {CStr(prHeap[g_inputText].text)}
         ELSE UninitTexts \cup {CStr(prHeap[g_inputText].text)}
    ELSE UninitTexts

\* delete[] g_inputText of a buffer that was freed before may end the process
DeleteAborts ==
    IF g_inputText \in DOMAIN prHeap /\ ~prHeap[g_inputText].live
    THEN BOOLEAN ELSE {FALSE}

\* promptDialog after its pump: UnregisterClassW (which fails while a window
\* of the class exists), then the result is taken from g_did_confirm
PrReturn(t, bad) ==
    /\ prPc[t] = "exit"
    /\ prClass' = (prClass /\ DOMAIN prWindows # {})
    /\ UNCHANGED <<g_inputText, g_defalutContent, g_message, g_did_confirm,
                   hStaticPrompt, hEditInput, hButtonOK, hButtonCancel,
                   prWindows, prEdit, prCtlPos, prCalls, prCallNo, prArgs,
                   prDlg, prLast>>
    /\ IF ~g_did_confirm
       THEN /\ prOutput' = [prOutput EXCEPT ![t] = <<>>]
            /\ PrDone(t, Returned(FALSE))
            /\ UNCHANGED prHeap
       ELSE \E text \in InputTextReads, aborts \in DeleteAborts :
            IF WideThrows(text, bad)
            THEN /\ PrDone(t, Thrown("runtime_error"))
                 /\ UNCHANGED <<prOutput, prHeap>>
            ELSE IF aborts
            THEN /\ prOutput' = [prOutput EXCEPT ![t] = wideToUtf8(text)]
                 /\ PrDone(t, Thrown("abort"))
                 /\ UNCHANGED prHeap
            ELSE /\ prOutput' = [prOutput EXCEPT ![t] = wideToUtf8(text)]
                 /\ prHeap' = IF g_inputText \in DOMAIN prHeap
                              THEN [prHeap EXCEPT ![g_inputText].live = FALSE]
                              ELSE prHeap
                 /\ PrDone(t, Returned(TRUE))

\* ------------------------------------------------------------------------
\* File pickers: buildFilter, getOpenFileName, getSaveFileName,
\* getOpenMultipleFileNames
\* ------------------------------------------------------------------------

MAX_PATH_LEN == 4096

BUFFER_SIZE == 65536

SIZEOF_WCHAR == 2

\* filter lists (UTF-8): "T|*", "b", "a|b|c", "|x", and "a|" with a NUL
\* character between its two letters
FilterLists ==
    { <<>>,
      << <<84, 124, 42>> >>,
      << <<84, 124, 42>>, <<98>> >>,
      << <<98>>, <<84, 124, 42>> >>,
      << <<97, 124, 98, 124, 99>>, <<124, 120>> >>,
      << <<97, 0, 124, 120>>, <<84, 124, 42>> >> }

InitialDirs == {<<>>, <<68>>}

DefaultFileNames == {<<>>, <<70>>}

\* default file names of 4095, 4096 and 32768 letters: just under the limit
\* of the single-file pickers, at it, and at the limit of the multi-select
\* picker
LongFileNames ==
    { Repeat(70, MAX_PATH_LEN - 1), Repeat(70, MAX_PATH_LEN),
      Repeat(70, BUFFER_SIZE \div SIZEOF_WCHAR) }

DefaultExts == {<<>>, <<69>>}

\* texts on which the conversion primitive fails during a file-picker call
FpBadSets == { {}, {<<84>>}, {<<42>>}, {<<70>>}, {<<68, 92, 97>>} }

\* what the native dialog reports: its result, the extended error, and the
\* text it left in the file buffer ("D\a"; "D" with "a" and "b"; "D" alone
\* with a stale "a" behind the empty token; "D" with "a" and a stale "b")
FpDialogs ==
    { [ok |-> FALSE, err |-> 0, buffer |-> <<>>],
      [ok |-> FALSE, err |-> 65535, buffer |-> <<>>],
      [ok |-> FALSE, err |-> 12291, buffer |-> <<>>],
      [ok |-> TRUE, err |-> 0, buffer |-> <<68, 92, 97, 0, 0>>],
      [ok |-> TRUE, err |-> 0, buffer |-> <<68, 0, 97, 0, 98, 0, 0>>],
      [ok |-> TRUE, err |-> 0, buffer |-> <<68, 0, 0, 97, 0>>],
      [ok |-> TRUE, err |-> 0, buffer |-> <<68, 0, 97, 0, 0, 98, 0>>] }

VARIABLES
    fpArgs,             \* arguments of the call
    fpBad,              \* texts on which the conversion primitive fails
    fpDialog,           \* what the native dialog reports if it is invoked
    fpPc,               \* "ready" before the call, "done" after it
    fpFn,               \* the function that was called
    fpNative,           \* the request handed to the native dialog
    fpResult            \* outcome of the call

fpVars == <<fpArgs, fpBad, fpDialog, fpPc, fpFn, fpNative, fpResult>>

\* no native dialog was invoked
NoRequest == [api |-> "none"]

NoArgs == [filters |-> <<>>, title |-> <<>>, initialDir |-> <<>>,
           defaultFileName |-> <<>>, defaultExt |-> <<>>]

\* a program that calls no file picker
FpInit ==
    /\ fpArgs = NoArgs
    /\ fpBad = {}
    /\ fpDialog = [ok |-> FALSE, err |-> 0, buffer |-> <<>>]
    /\ fpPc = "done"
    /\ fpFn = "none"
    /\ fpNative = NoRequest
    /\ fpResult = NoResult

\* a program about to call a file picker with arguments of its choice; the
\* long default file names come with few choices of the other arguments
FpInputs ==
    /\ \/ /\ fpArgs \in [filters : FilterLists, title : Titles,
                          initialDir : InitialDirs,
                          defaultFileName : DefaultFileNames,
                          defaultExt : DefaultExts]
          /\ fpBad \in FpBadSets
          /\ fpDialog \in FpDialogs
       \/ /\ fpArgs \in [filters : {<<>>, << <<84, 124, 42>>, <<98>> >>},
                          title : {<<>>}, initialDir : {<<>>},
                          defaultFileName : LongFileNames,
                          defaultExt : {<<>>}]
          /\ fpBad = {}
          /\ fpDialog \in {d \in FpDialogs : d.err = 0 /\ Len(d.buffer) <= 5}
    /\ fpPc = "ready"
    /\ fpFn = "none"
    /\ fpNative = NoRequest
    /\ fpResult = NoResult

\* std::string::find(c): the first position of c (1-based), 0 for npos
FindChar(s, c) ==
    LET hits == {k \in 1..Len(s) : s[k] = c} IN
    IF hits = {} THEN 0 ELSE CHOOSE k \in hits : \A j \in hits : k <= j

Outcome(k, v) == [kind |-> k, val |-> v]

\* the loop of buildFilter over the entries not yet appended to filterStr
RECURSIVE BuildFilterLoop(_, _, _)
BuildFilterLoop(filters, bad, filterStr) ==
    IF filters = <<>> THEN Outcome("ok", filterStr \o <<0>>)
    ELSE LET filter == filters[1]
             pipePos == FindChar(filter, 124) IN
         IF pipePos = 0 THEN Outcome("invalid_argument", <<>>)
         ELSE LET desc == SubSeq(filter, 1, pipePos - 1)
                  pattern == SubSeq(filter, pipePos + 1, Len(filter)) IN
              IF Utf8Throws(desc, bad) \/ Utf8Throws(pattern, bad)
              THEN Outcome("runtime_error", <<>>)
              ELSE BuildFilterLoop(Tail(filters), bad,
                       filterStr \o utf8ToWide(desc) \o <<0>>
                                 \o utf8ToWide(pattern) \o <<0>>)

\* the final terminator forgotten
buildFilter_Mut(filters, bad) ==
    LET r == BuildFilterLoop(filters, bad, <<>>) IN
    IF r.kind = "ok" THEN Outcome("ok", SubSeq(r.val, 1, Len(r.val) - 1)) ELSE r

buildFilter(filters, bad) == BuildFilterLoop(filters, bad, <<>>)

\* a string argument handed over as a pointer: null when the argument is empty
PtrOf(utf8) == IF utf8 = <<>> THEN [null |-> TRUE, text |-> <<>>]
               ELSE [null |-> FALSE, text |-> CStr(utf8ToWide(utf8))]

\* the length check of getOpenFileName and getSaveFileName
TooLongSingle(defaultWide) == Len(defaultWide) >= MAX_PATH_LEN

\* the length check of getOpenMultipleFileNames
TooLongMultiple(defaultWide) == Len(defaultWide) * SIZEOF_WCHAR >= BUFFER_SIZE

\* the part the three file pickers share: conversions of the arguments and
\* the fields of OPENFILENAMEW; single tells which length check applies
FileRequest(a, bad, single, nMaxFile) ==
    LET filter == buildFilter(a.filters, bad) IN
    IF filter.kind # "ok" THEN Outcome(filter.kind, NoRequest)
    ELSE IF Utf8Throws(a.title, bad) THEN Outcome("runtime_error", NoRequest)
    ELSE IF a.defaultFileName # <<>>
            /\ (Utf8Throws(a.defaultFileName, bad)
                \/ IF single THEN TooLongSingle(utf8ToWide(a.defaultFileName))
                   ELSE TooLongMultiple(utf8ToWide(a.defaultFileName)))
        THEN Outcome("runtime_error", NoRequest)
    ELSE IF Utf8Throws(a.initialDir, bad) \/ Utf8Throws(a.defaultExt, bad)
        THEN Outcome("runtime_error", NoRequest)
    ELSE Outcome("ok",
            [lpstrFilter |-> filter.val,
             lpstrFile |-> CStr(utf8ToWide(a.defaultFileName)),
             nMaxFile |-> nMaxFile,
             lpstrInitialDir |-> PtrOf(a.initialDir),
             lpstrDefExt |-> PtrOf(a.defaultExt),
             lpstrTitle |-> PtrOf(a.title)])

\* a cancelled dialog reported as a failure
SinglePath_Mut(dlg, bad, failure) ==
    IF ~dlg.ok THEN Outcome(failure, <<>>)
    ELSE LET filePath == CStr(dlg.buffer) IN
         IF WideThrows(filePath, bad) THEN Outcome("runtime_error", <<>>)
         ELSE Outcome("return", wideToUtf8(filePath))

\* the end of a file picker that yields one path: the extended error tells a
\* failure from a cancellation; on success the buffer is cut at its terminator
SinglePath(dlg, bad, failure) ==
    IF ~dlg.ok
    THEN IF dlg.err # 0 THEN Outcome(failure, <<>>) ELSE Outcome("return", <<>>)
    ELSE LET filePath == CStr(dlg.buffer) IN
         IF WideThrows(filePath, bad) THEN Outcome("runtime_error", <<>>)
         ELSE Outcome("return", wideToUtf8(filePath))

getOpenFileName(a, bad, dlg) ==
    LET req == FileRequest(a, bad, TRUE, MAX_PATH_LEN) IN
    IF req.kind # "ok" THEN [out |-> Outcome(req.kind, <<>>), ofn |-> NoRequest]
    ELSE [out |-> SinglePath(dlg, bad, "runtime_error"),
          ofn |-> [api |-> "GetOpenFileNameW", request |-> req.val,
                   Flags |-> {"OFN_FILEMUSTEXIST", "OFN_PATHMUSTEXIST",
                              "OFN_NOCHANGEDIR", "OFN_EXPLORER"}]]

getSaveFileName(a, bad, dlg) ==
    LET req == FileRequest(a, bad, TRUE, MAX_PATH_LEN) IN
    IF req.kind # "ok" THEN [out |-> Outcome(req.kind, <<>>), ofn |-> NoRequest]
    ELSE [out |-> SinglePath(dlg, bad, "runtime_error"),
          ofn |-> [api |-> "GetSaveFileNameW", request |-> req.val,
                   Flags |-> {"OFN_OVERWRITEPROMPT", "OFN_PATHMUSTEXIST",
                              "OFN_NOCHANGEDIR", "OFN_EXPLORER"}]]

\* the character at 0-based offset ptr of a zero-filled buffer
CharAt(buffer, ptr) == IF ptr < Len(buffer) THEN buffer[ptr + 1] ELSE 0

\* the string that starts at 0-based offset ptr of the buffer
StrAt(buffer, ptr) ==
    IF ptr >= Len(buffer) THEN <<>> ELSE CStr(SubSeq(buffer, ptr + 1, Len(buffer)))

\* the while loop of getOpenMultipleFileNames over the file names
RECURSIVE SelectedFilesLoop(_, _, _, _, _)
SelectedFilesLoop(buffer, ptr, directory, bad, selectedFiles) ==
    IF CharAt(buffer, ptr) = 0 THEN Outcome("return", selectedFiles)
    ELSE LET filename == StrAt(buffer, ptr)
             fullPath == directory \o <<92>> \o filename IN
         IF WideThrows(fullPath, bad) THEN Outcome("runtime_error", <<>>)
         ELSE SelectedFilesLoop(buffer, ptr + Len(filename) + 1, directory, bad,
                                Append(selectedFiles, wideToUtf8(fullPath)))

\* the single selection not told apart from a directory with file names
SelectedFiles_Mut(buffer, bad) ==
    LET directory == StrAt(buffer, 0) IN
    SelectedFilesLoop(buffer, Len(directory) + 1, directory, bad, <<>>)

\* the parsing of the buffer the multi-select dialog filled
SelectedFiles(buffer, bad) ==
    LET directory == StrAt(buffer, 0)
        ptr == Len(directory) + 1 IN
    IF CharAt(buffer, ptr) = 0
    THEN IF WideThrows(directory, bad) THEN Outcome("runtime_error", <<>>)
         ELSE Outcome("return", <<wideToUtf8(directory)>>)
    ELSE SelectedFilesLoop(buffer, ptr, directory, bad, <<>>)

getOpenMultipleFileNames(a, bad, dlg) ==
    LET req == FileRequest(a, bad, FALSE, BUFFER_SIZE) IN
    IF req.kind # "ok" THEN [out |-> Outcome(req.kind, <<>>), ofn |-> NoRequest]
    ELSE [out |-> IF ~dlg.ok
                  THEN IF dlg.err # 0 THEN Outcome("runtime_error", <<>>)
                       ELSE Outcome("return", <<>>)
                  ELSE SelectedFiles(dlg.buffer, bad),
          ofn |-> [api |-> "GetOpenFileNameW", request |-> req.val,
                   Flags |-> {"OFN_FILEMUSTEXIST", "OFN_PATHMUSTEXIST",
                              "OFN_NOCHANGEDIR", "OFN_EXPLORER",
                              "OFN_ALLOWMULTISELECT"}]]

\* the program calls fn, which yields r
FpCalls(fn, r) ==
    /\ fpPc = "ready"
    /\ fpPc' = "done"
    /\ fpFn' = fn
    /\ fpNative' = r.ofn
    /\ fpResult' = r.out
    /\ UNCHANGED <<fpArgs, fpBad, fpDialog>>

GetOpenFileName == FpCalls("getOpenFileName", getOpenFileName(fpArgs, fpBad, fpDialog))

GetSaveFileName == FpCalls("getSaveFileName", getSaveFileName(fpArgs, fpBad, fpDialog))

GetOpenMultipleFileNames ==
    FpCalls("getOpenMultipleFileNames",
            getOpenMultipleFileNames(fpArgs, fpBad, fpDialog))

\* ------------------------------------------------------------------------
\* Color picker: chooseColor
\* ------------------------------------------------------------------------

\* colors the caller passes in
InColors ==
    { [r |-> 0, g |-> 0, b |-> 0, a |-> 0],
      [r |-> 255, g |-> 128, b |-> 1, a |-> 7],
      [r |-> 18, g |-> 52, b |-> 86, a |-> 255],
      [r |-> 1, g |-> 0, b |-> 0, a |-> 128] }

\* what the native color dialog reports: its result, the extended error, the
\* color it leaves in rgbResult on success, and whether the user redefined
\* the first custom color
ClDialogs ==
    [ok : {TRUE}, err : {0}, rgb : {0, 1193046, 16777215, 65280},
     custom : BOOLEAN]
    \cup [ok : {FALSE}, err : {0, 65535}, rgb : {0}, custom : {FALSE}]

\* parent windows handed to the native dialogs, 0 = NULL
ParentWindows == {0, 1}

VARIABLES
    customColors,       \* static of chooseColor: the 16 custom colors
    clColor,            \* the caller's selectedColor
    clArg,              \* selectedColor as it was when chooseColor was called
    clNative,           \* the request handed to the native dialog
    clRgbResult,        \* cc.rgbResult after the native dialog
    clResult            \* outcome of the last call

clVars == <<customColors, clColor, clArg, clNative, clRgbResult, clResult>>

ClInit ==
    /\ customColors = [k \in 1..16 |-> 0]
    /\ clColor = [r |-> 0, g |-> 0, b |-> 0, a |-> 0]
    /\ clArg = [r |-> 0, g |-> 0, b |-> 0, a |-> 0]
    /\ clNative = NoRequest
    /\ clRgbResult = 0
    /\ clResult = NoResult

\* the RGB macro and its three accessors
RGB(r, g, b) == r + g * 256 + b * 65536

GetRValue(rgb) == rgb % 256

\* the green channel taken from the low byte
GetGValue_Mut(rgb) == rgb % 256

GetGValue(rgb) == (rgb \div 256) % 256

GetBValue(rgb) == (rgb \div 65536) % 256

\* chooseColor; a cancelled or failed dialog leaves rgbResult as it was set
ChooseColor(selectedColor, hwndParent, dlg) ==
    LET initialColor == RGB(selectedColor.r, selectedColor.g, selectedColor.b)
        rgbResult == IF dlg.ok THEN dlg.rgb ELSE initialColor IN
    /\ clArg' = selectedColor
    /\ clNative' = [api |-> "ChooseColorW", hwndOwner |-> hwndParent,
                    lpCustColors |-> customColors, rgbResult |-> initialColor,
                    Flags |-> {"CC_RGBINIT", "CC_FULLOPEN"}]
    /\ customColors' = IF dlg.custom THEN [customColors EXCEPT ![1] = 255]
                       ELSE customColors
    /\ clRgbResult' = rgbResult
    /\ IF ~dlg.ok /\ dlg.err # 0
       THEN /\ clResult' = Thrown("runtime_error")
            /\ clColor' = selectedColor
       ELSE /\ clResult' = Returned(0)
            /\ clColor' = [r |-> GetRValue(rgbResult), g |-> GetGValue(rgbResult),
                           b |-> GetBValue(rgbResult), a |-> 255]

\* ------------------------------------------------------------------------
\* Font picker: the font-path resolver and chooseFont
\* ------------------------------------------------------------------------

REG_SZ == 1

REG_BINARY == 3

\* GetWindowsDirectoryW: "C:\W"
WindowsDir == <<67, 58, 92, 87>>

\* registration lists: values <<name, type, data>> in enumeration order
\* "Ab (T)" = "a.t"
FontList1 == << <<<<65, 98, 32, 40, 84, 41>>, REG_SZ, <<97, 46, 116>>>> >>

\* "Zz" (binary), "xAB (T)" = "C:x", "ab" = "b.t"
FontList2 ==
    << <<<<90, 122>>, REG_BINARY, <<97, 46, 116>>>>,
       <<<<120, 65, 66, 32, 40, 84, 41>>, REG_SZ, <<67, 58, 120>>>>,
       <<<<97, 98>>, REG_SZ, <<98, 46, 116>>>> >>

\* "Q (ab)" = "q.t", "Ab" = "a.t"
FontList3 ==
    << <<<<81, 32, 40, 97, 98, 41>>, REG_SZ, <<113, 46, 116>>>>,
       <<<<65, 98>>, REG_SZ, <<97, 46, 116>>>> >>

\* "ab" = "" (a value without data), "abc" = "c.t"
FontList4 ==
    << <<<<97, 98>>, REG_SZ, <<>>>>,
       <<<<97, 98, 99>>, REG_SZ, <<99, 46, 116>>>> >>

FontKey(open, values) == [open |-> open, values |-> values]

\* the per-machine and the per-user key: whether each can be opened, and
\* its values
FontKeys ==
    { [lm |-> FontKey(FALSE, <<>>), cu |-> FontKey(FALSE, <<>>)],
      [lm |-> FontKey(TRUE, <<>>), cu |-> FontKey(FALSE, FontList1)],
      [lm |-> FontKey(FALSE, FontList2), cu |-> FontKey(TRUE, FontList1)],
      [lm |-> FontKey(TRUE, FontList1), cu |-> FontKey(TRUE, <<>>)],
      [lm |-> FontKey(TRUE, FontList2), cu |-> FontKey(TRUE, FontList1)],
      [lm |-> FontKey(TRUE, <<>>), cu |-> FontKey(TRUE, FontList2)],
      [lm |-> FontKey(TRUE, FontList3), cu |-> FontKey(TRUE, FontList2)],
      [lm |-> FontKey(FALSE, FontList1), cu |-> FontKey(FALSE, FontList2)],
      [lm |-> FontKey(TRUE, FontList4), cu |-> FontKey(TRUE, FontList2)] }

CfDialog(ok, err, lfFaceName, iPointSize) ==
    [ok |-> ok, err |-> err, lfFaceName |-> lfFaceName, iPointSize |-> iPointSize]

\* what the native font dialog reports, with the face names "ab", "AB" and
\* "zz"; a cancelled or failed dialog leaves the zero-initialised
\* CHOOSEFONTW and LOGFONTW as they were
CfDialogs ==
    { CfDialog(TRUE, 0, <<97, 98>>, 125), CfDialog(TRUE, 0, <<65, 66>>, 129),
      CfDialog(TRUE, 0, <<122, 122>>, 120), CfDialog(TRUE, 0, <<97, 98>>, 9),
      CfDialog(FALSE, 0, <<>>, 0), CfDialog(FALSE, 65535, <<>>, 0) }

\* texts on which the conversion primitive fails during a chooseFont call
CfBadSets == { {}, {<<97, 98>>}, {<<67, 58, 120>>} }

VARIABLES
    cfi,                \* the caller's chooseFontInfo
    cfDialog,           \* what the native font dialog reported
    cfKeys,             \* the per-machine and the per-user registration list
    cfResult,           \* outcome of the last call
    cfScans             \* the scans FindFontFile ran in the last call

cfVars == <<cfi, cfDialog, cfKeys, cfResult, cfScans>>

CfInit ==
    /\ cfi = [fontFaceName |-> <<>>, fontPath |-> <<>>, fontPointSize |-> 0]
    /\ cfDialog = [ok |-> FALSE, err |-> 0, lfFaceName |-> <<>>, iPointSize |-> 0]
    /\ cfKeys = [lm |-> [open |-> FALSE, values |-> <<>>],
                 cu |-> [open |-> FALSE, values |-> <<>>]]
    /\ cfResult = NoResult
    /\ cfScans = <<>>

towlower(c) == IF c >= 65 /\ c <= 90 THEN c + 32 ELSE c

ToLower(s) == [k \in 1..Len(s) |-> towlower(s[k])]

\* std::wstring::find(sub): the first position of sub (1-based), 0 for npos
FindSub(s, sub) ==
    LET hits == {k \in 1..(Len(s) - Len(sub) + 1) :
                    SubSeq(s, k, k + Len(sub) - 1) = sub} IN
    IF hits = {} THEN 0 ELSE CHOOSE k \in hits : \A j \in hits : k <= j

\* the scan without its break: the last matching value wins
RECURSIVE ScanFontValues_Mut(_, _, _)
ScanFontValues_Mut(values, index, fontNameSubstring) ==
    IF index >= Len(values) THEN <<>>
    ELSE LET valueName == values[index + 1][1]
             currentFontPath == CStr(values[index + 1][3])
             pos == FindSub(valueName, <<32, 40>>)
             currentFontName == IF pos # 0 THEN SubSeq(valueName, 1, pos - 1)
                                ELSE valueName
             later == ScanFontValues_Mut(values, index + 1, fontNameSubstring) IN
         IF later # <<>> THEN later
         ELSE IF /\ values[index + 1][2] = REG_SZ
                 /\ FindSub(ToLower(currentFontName),
                            ToLower(fontNameSubstring)) # 0
         THEN IF FindChar(currentFontPath, 58) = 0
              THEN WindowsDir \o <<92, 70, 111, 110, 116, 115, 92>>
                              \o currentFontPath
              ELSE currentFontPath
         ELSE <<>>

\* every path taken as relative to the font directory
ResolveFontPath_Mut(currentFontPath) ==
    WindowsDir \o <<92, 70, 111, 110, 116, 115, 92>> \o currentFontPath

\* the path of a matching value: under windowsDir + L"\\Fonts\\" unless the
\* data holds a ':'
ResolveFontPath(currentFontPath) ==
    IF FindChar(currentFontPath, 58) = 0
    THEN WindowsDir \o <<92, 70, 111, 110, 116, 115, 92>> \o currentFontPath
    ELSE currentFontPath

\* the registry enumeration of FindFontFileLocalMachine from value index on
RECURSIVE ScanFontValues(_, _, _)
ScanFontValues(values, index, fontNameSubstring) ==
    IF index >= Len(values) THEN <<>>
    ELSE LET valueName == values[index + 1][1]
             valueType == values[index + 1][2]
             currentFontPath == CStr(values[index + 1][3])
             pos == FindSub(valueName, <<32, 40>>)
             currentFontName == IF pos # 0 THEN SubSeq(valueName, 1, pos - 1)
                                ELSE valueName
             lowerFontName == ToLower(currentFontName)
             lowerSubstring == ToLower(fontNameSubstring) IN
         IF valueType = REG_SZ /\ FindSub(lowerFontName, lowerSubstring) # 0
         THEN ResolveFontPath(currentFontPath)
         ELSE ScanFontValues(values, index + 1, fontNameSubstring)

FindFontFileLocalMachine(fontNameSubstring, keys) ==
    IF ~keys.lm.open THEN <<>>
    ELSE ScanFontValues(keys.lm.values, 0, fontNameSubstring)

FindFontFileCurrentUser(fontNameSubstring, keys) ==
    IF ~keys.cu.open THEN <<>>
    ELSE ScanFontValues(keys.cu.values, 0, fontNameSubstring)

\* the per-user match preferred to the per-machine match
FindFontFile_Mut(fontNameSubstring, keys) ==
    LET try_cu == FindFontFileCurrentUser(fontNameSubstring, keys) IN
    IF try_cu = <<>> THEN FindFontFileLocalMachine(fontNameSubstring, keys)
    ELSE try_cu

FindFontFile(fontNameSubstring, keys) ==
    LET try_lm == FindFontFileLocalMachine(fontNameSubstring, keys) IN
    IF try_lm = <<>> THEN FindFontFileCurrentUser(fontNameSubstring, keys)
    ELSE try_lm

\* the scans one call of FindFontFile runs, in order, each with its result
FindFontFileScans(fontNameSubstring, keys) ==
    LET try_lm == FindFontFileLocalMachine(fontNameSubstring, keys) IN
    <<[fn |-> "FindFontFileLocalMachine", result |-> try_lm]>>
    \o IF try_lm = <<>>
       THEN <<[fn |-> "FindFontFileCurrentUser",
               result |-> FindFontFileCurrentUser(fontNameSubstring, keys)]>>
       ELSE <<>>

\* the point size rounded to the nearest integer
PointSize_Mut(iPointSize) == CDiv(iPointSize + 5, 10)

\* cf.iPointSize / 10
PointSize(iPointSize) == CDiv(iPointSize, 10)

\* chooseFont; the three fields of cfi are assigned one after the other, so
\* a conversion that throws leaves the later ones as they were
ChooseFont(dlg, keys, bad) ==
    /\ cfDialog' = dlg
    /\ cfKeys' = keys
    /\ cfScans' = IF (~dlg.ok /\ dlg.err # 0)
                     \/ WideThrows(CStr(dlg.lfFaceName), bad)
                  THEN <<>>
                  ELSE FindFontFileScans(CStr(dlg.lfFaceName), keys)
    /\ IF ~dlg.ok /\ dlg.err # 0
       THEN /\ cfResult' = Thrown("runtime_error")
            /\ UNCHANGED cfi
       ELSE LET lfFaceName == CStr(dlg.lfFaceName)
                path == FindFontFile(lfFaceName, keys) IN
            IF WideThrows(lfFaceName, bad)
            THEN /\ cfResult' = Thrown("runtime_error")
                 /\ UNCHANGED cfi
            ELSE IF WideThrows(path, bad)
            THEN /\ cfResult' = Thrown("runtime_error")
                 /\ cfi' = [cfi EXCEPT !.fontFaceName = wideToUtf8(lfFaceName),
                                       !.fontPointSize = PointSize(dlg.iPointSize)]
            ELSE /\ cfResult' = Returned(0)
                 /\ cfi' = [fontFaceName |-> wideToUtf8(lfFaceName),
                            fontPath |-> wideToUtf8(path),
                            fontPointSize |-> PointSize(dlg.iPointSize)]

\* ------------------------------------------------------------------------
\* Encoding round trip: a text through utf8ToWide and back through wideToUtf8
\* ------------------------------------------------------------------------

\* pieces of UTF-8 text: "A", NUL, U+00E9, U+0800, U+20AC, U+D7FF, U+E000,
\* U+FFFD, U+FFFF, U+10000, U+10FFFF, and pieces that are not well formed: a
\* lone lead byte, a lone continuation byte, an encoded surrogate, an
\* overlong NUL, a code point above U+10FFFF
TextPieces ==
    { <<65>>, <<0>>, <<195, 169>>, <<224, 160, 128>>, <<226, 130, 172>>,
      <<237, 159, 191>>, <<238, 128, 128>>, <<239, 191, 189>>,
      <<239, 191, 191>>, <<240, 144, 128, 128>>, <<244, 143, 191, 191>>,
      <<195>>, <<169>>, <<237, 160, 128>>, <<192, 128>>,
      <<244, 144, 128, 128>> }

\* the texts handed to utf8ToWide: up to two pieces
RoundTripTexts == {<<>>} \cup TextPieces \cup {p \o q : p, q \in TextPieces}

\* how the platform primitive answers during one helper call: it succeeds,
\* or its size query returns 0, or its conversion returns 0
PrimitiveAnswers == {"ok", "size_fails", "conversion_fails"}

VARIABLES
    cvText,             \* the UTF-8 text handed to utf8ToWide
    cvPc,               \* "idle", "start", "wide", "back" or "thrown"
    cvWide,             \* what utf8ToWide returned
    cvBack,             \* what wideToUtf8 returned
    cvPrimitiveCalls    \* calls of the platform primitive so far

cvVars == <<cvText, cvPc, cvWide, cvBack, cvPrimitiveCalls>>

\* a program that converts no text
CvInit ==
    /\ cvText = <<>>
    /\ cvPc = "idle"
    /\ cvWide = <<>>
    /\ cvBack = <<>>
    /\ cvPrimitiveCalls = 0

\* a program about to convert a text of its choice
CvInputs ==
    /\ cvText \in RoundTripTexts
    /\ cvPc = "start"
    /\ cvWide = <<>>
    /\ cvBack = <<>>
    /\ cvPrimitiveCalls = 0

\* calls of the primitive in one helper call: none for the empty text, the
\* size query alone if it fails, else the size query and the conversion
PrimitiveCalls(text, answer) ==
    IF text = <<>> THEN 0 ELSE IF answer = "size_fails" THEN 1 ELSE 2

\* whether the helper throws std::runtime_error
HelperThrows(text, answer) == text # <<>> /\ answer # "ok"

\* the program calls utf8ToWide(cvText)
Utf8ToWideCall(answer) ==
    /\ cvPc = "start"
    /\ cvPrimitiveCalls' = cvPrimitiveCalls + PrimitiveCalls(cvText, answer)
    /\ IF HelperThrows(cvText, answer)
       THEN cvPc' = "thrown" /\ UNCHANGED cvWide
       ELSE cvPc' = "wide" /\ cvWide' = utf8ToWide(cvText)
    /\ UNCHANGED <<cvText, cvBack>>

\* the program calls wideToUtf8 on what utf8ToWide returned
WideToUtf8Call(answer) ==
    /\ cvPc = "wide"
    /\ cvPrimitiveCalls' = cvPrimitiveCalls + PrimitiveCalls(cvWide, answer)
    /\ IF HelperThrows(cvWide, answer)
       THEN cvPc' = "thrown" /\ UNCHANGED cvBack
       ELSE cvPc' = "back" /\ cvBack' = wideToUtf8(cvWide)
    /\ UNCHANGED <<cvText, cvWide>>

\* ------------------------------------------------------------------------
\* Specifications
\* ------------------------------------------------------------------------

vars == <<mbVars, prVars, fpVars, clVars, cfVars, cvVars>>

Init == MbInit /\ PrInit /\ FpInit /\ ClInit /\ CfInit /\ CvInit

\* messageBox and its window procedure touch nothing of the other dialogs
MbFrame == UNCHANGED <<prVars, fpVars, clVars, cfVars, cvVars>>

\* the steps of a thread t that calls messageBox: the call, the creation of
\* the window, the messages its pump dispatches, the return
MbThread(t) ==
    \/ \E title \in Titles, message \in Messages, options \in OptionLists,
          bad \in BadSets :
          MbCall(t, title, message, options, bad) /\ MbFrame
    \/ \E regOk \in BOOLEAN, createOk \in BOOLEAN, fontOk \in BOOLEAN :
          MbCreate(t, regOk, createOk, fontOk) /\ MbFrame
    \/ \E w \in DOMAIN mbWindows, size \in ClientSizes :
          MbWmSize(t, w, size) /\ MbFrame
    \/ \E nc \in NonClientSizes :
          /\ MbWmSize(t, mbDlg[t], ClientSizeOf(WindowSize(Len(mbArgs[t])), nc))
          /\ MbFrame
    \/ \E w \in DOMAIN mbWindows, btnId \in CommandIds :
          MbWmCommand(t, w, btnId) /\ MbFrame
    \/ \E w \in DOMAIN mbWindows : MbWmClose(t, w) /\ MbFrame
    \/ MbQuit(t) /\ MbFrame
    \/ MbReturn(t) /\ MbFrame

\* a program that calls messageBox from its main thread only
MbNext == MbThread("main")

SpecMessageBox == Init /\ [][MbNext]_vars

\* the option lists of the smaller programs: the second holds an id the
\* first does not
SimpleOptionLists ==
    { << <<7, <<89>>>> >>,
      << <<7, <<89>>>>, <<8, <<78>>>> >> }

\* the steps of a thread t of the smaller programs: those of MbThread with
\* conversions that succeed and one client size
MbSimpleThread(t) ==
    \/ \E options \in SimpleOptionLists :
          /\ MbCall(t, <<84>>, <<77>>, options, {})
          /\ prCalls = 0 /\ MbFrame
    \/ \E regOk \in BOOLEAN, createOk \in BOOLEAN :
          MbCreate(t, regOk, createOk, TRUE) /\ MbFrame
    \/ \E w \in DOMAIN mbWindows : MbWmSize(t, w, <<380, 100>>) /\ MbFrame
    \/ \E w \in DOMAIN mbWindows, btnId \in CommandIds :
          MbWmCommand(t, w, btnId) /\ MbFrame
    \/ \E w \in DOMAIN mbWindows : MbWmClose(t, w) /\ MbFrame
    \/ MbQuit(t) /\ MbFrame
    \/ MbReturn(t) /\ MbFrame

\* promptDialog and its window procedure touch nothing of the other dialogs
PrFrame == UNCHANGED <<mbVars, fpVars, clVars, cfVars, cvVars>>

\* the steps of a thread t that calls promptDialog: the call, the creation
\* of the window, the user's typing, the messages its pump dispatches, the
\* return
PrThread(t) ==
    \/ \E title \in Titles, message \in Messages,
          defaultContent \in DefaultContents, bad \in BadSets,
          regOk \in BOOLEAN :
          PrCall(t, title, message, defaultContent, bad, regOk) /\ PrFrame
    \/ \E bad \in BadSets, createOk \in BOOLEAN :
          PrCreate(t, bad, createOk) /\ PrFrame
    \/ \E w \in DOMAIN prWindows, text \in EditTexts :
          PrType(t, w, text) /\ PrFrame
    \/ \E w \in DOMAIN prWindows, size \in PrClientSizes :
          PrWmSize(t, w, size) /\ PrFrame
    \/ \E w \in DOMAIN prWindows, id \in PrCommandIds :
          PrWmCommand(t, w, id) /\ PrFrame
    \/ \E w \in DOMAIN prWindows : PrWmClose(t, w) /\ PrFrame
    \/ PrQuit(t) /\ PrFrame
    \/ \E bad \in BadSets : PrReturn(t, bad) /\ PrFrame

\* a program that calls promptDialog from its main thread only
PrNext == PrThread("main")

SpecPromptDialog == Init /\ [][PrNext]_vars

\* texts typed into the input boxes of the smaller programs
SimpleEditTexts == {<<97>>, <<233>>}

\* the steps of a thread t of the smaller programs, which calls
\* promptDialog once: those of PrThread with conversions that succeed, a
\* class that registers and one client size
PrSimpleThread(t) ==
    \/ \E defaultContent \in DefaultContents :
          /\ PrCall(t, <<84>>, <<77>>, defaultContent, {}, TRUE)
          /\ prCallNo[t] = 0 /\ mbCalls = 0 /\ PrFrame
    \/ \E createOk \in BOOLEAN : PrCreate(t, {}, createOk) /\ PrFrame
    \/ \E w \in DOMAIN prWindows, text \in SimpleEditTexts :
          PrType(t, w, text) /\ PrFrame
    \/ \E w \in DOMAIN prWindows : PrWmSize(t, w, <<175, 60>>) /\ PrFrame
    \/ \E w \in DOMAIN prWindows, id \in PrCommandIds :
          PrWmCommand(t, w, id) /\ PrFrame
    \/ \E w \in DOMAIN prWindows : PrWmClose(t, w) /\ PrFrame
    \/ PrQuit(t) /\ PrFrame
    \/ PrReturn(t, {}) /\ PrFrame

\* a program in which two threads call messageBox, or in which two threads
\* call promptDialog; each step is one whole handler or one whole staging,
\* so the interleavings are a subset of those the unsynchronised code allows
ConcurrentNext ==
    \/ MbSimpleThread("main")
    \/ MbSimpleThread("second")
    \/ PrSimpleThread("main")
    \/ PrSimpleThread("second")

SpecConcurrent == Init /\ [][ConcurrentNext]_vars

\* a program whose main thread calls messageBox, or calls promptDialog
DialogsNext == MbSimpleThread("main") \/ PrSimpleThread("main")

\* a thread whose pump has ended goes on to the end of the function
DialogsFairness ==
    /\ WF_vars(MbReturn("main") /\ MbFrame)
    /\ WF_vars(PrReturn("main", {}) /\ PrFrame)

SpecDialogs == Init /\ [][DialogsNext]_vars /\ DialogsFairness

\* a program that calls one of the file pickers once
FpFrame == UNCHANGED <<mbVars, prVars, clVars, cfVars, cvVars>>

FpNext ==
    \/ GetOpenFileName /\ FpFrame
    \/ GetSaveFileName /\ FpFrame
    \/ GetOpenMultipleFileNames /\ FpFrame

\* the arguments and what the native dialog will answer are drawn at the start
FpStart == MbInit /\ PrInit /\ FpInputs /\ ClInit /\ CfInit /\ CvInit

SpecFilePickers == FpStart /\ [][FpNext]_vars

\* a program that calls chooseColor again and again
ClNext ==
    /\ \E selectedColor \in InColors, hwndParent \in ParentWindows,
          dlg \in ClDialogs : ChooseColor(selectedColor, hwndParent, dlg)
    /\ UNCHANGED <<mbVars, prVars, fpVars, cfVars, cvVars>>

SpecChooseColor == Init /\ [][ClNext]_vars

\* a program that calls chooseFont again and again
CfNext ==
    /\ \E dlg \in CfDialogs, keys \in FontKeys, bad \in CfBadSets :
          ChooseFont(dlg, keys, bad)
    /\ UNCHANGED <<mbVars, prVars, fpVars, clVars, cvVars>>

SpecChooseFont == Init /\ [][CfNext]_vars

CvFrame == UNCHANGED <<mbVars, prVars, fpVars, clVars, cfVars>>

\* a program that converts one text to wide text and back
CvNext ==
    \/ \E answer \in PrimitiveAnswers : Utf8ToWideCall(answer) /\ CvFrame
    \/ \E answer \in PrimitiveAnswers : WideToUtf8Call(answer) /\ CvFrame

\* the text is drawn at the start
CvStart == MbInit /\ PrInit /\ FpInit /\ ClInit /\ CfInit /\ CvInputs

SpecEncoding == CvStart /\ [][CvNext]_vars

\* ------------------------------------------------------------------------
\* Properties of messageBox
\* ------------------------------------------------------------------------

\* thread t's call has ended and the last message its pump dispatched was a
\* press of button i (0-based) of the window the call created
MbPressedOwn(t, i) ==
    /\ mbDlg[t] # 0
    /\ mbLast[t] = <<"command", mbDlg[t], BTN_START + i>>

\* C1: when the user presses the button created for options[i] (control id
\* 2000+i) the window is destroyed at once, the pump ends, and the call
\* returns options[i].first, whatever was dispatched before the press.
C1_PressReturnsOptionId ==
    \A t \in Threads : \A i \in 0..(Len(mbArgs[t]) - 1) :
        MbPressedOwn(t, i) =>
            /\ mbDlg[t] \notin DOMAIN mbWindows
            /\ mbPc[t] \in {"exit", "idle"}
            /\ mbPc[t] = "idle" => mbResult[t] = Returned(mbArgs[t][i + 1][1])

\* a second call returned 8 after a resize and an out-of-range command,
\* through the press of its second button
C1_Witness ==
    \E t \in Threads :
        /\ MbPressedOwn(t, 1)
        /\ mbCallNo[t] = 2
        /\ mbSeen[t] = {"size", "ignored"}
        /\ mbPc[t] = "idle"
        /\ mbResult[t] = Returned(8)

\* C2: when the window of the call is dismissed through WM_CLOSE (no option
\* button was pressed: a press ends the pump), the call returns 0 whatever
\* ids the options carry and whatever earlier calls returned.
C2_CloseReturnsZero ==
    \A t \in Threads :
        (mbDlg[t] # 0 /\ mbLast[t] = <<"close", mbDlg[t], 0>>) =>
            /\ mbDlg[t] \notin DOMAIN mbWindows
            /\ mbPc[t] \in {"exit", "idle"}
            /\ mbPc[t] = "idle" => mbResult[t] = Returned(0)

\* a call whose options carry no id 0 returned 0 on WM_CLOSE after an earlier
\* call had returned 7
C2_Witness ==
    \E t \in Threads :
        /\ mbDlg[t] # 0 /\ mbLast[t] = <<"close", mbDlg[t], 0>>
        /\ mbPc[t] = "idle"
        /\ mbResult[t] = Returned(0)
        /\ \A k \in 1..Len(mbArgs[t]) : mbArgs[t][k][1] # 0
        /\ Len(mbTrace) = 2 /\ mbTrace[1] = Returned(7)

\* C3: a call with an empty option list is over in its first step with
\* result -1; no window class is registered, no window or control is
\* created, and none of the staging variables is written.
C3_EmptyOptionsRejected ==
    [][\A t \in Threads :
        (mbCallNo'[t] # mbCallNo[t] /\ mbArgs'[t] = <<>>) =>
            /\ mbResult'[t] = Returned(-1)
            /\ mbPc'[t] = "idle"
            /\ UNCHANGED <<g_options, g_msgContent, g_boxTitle, g_selectedId,
                           mbClass, mbWindows, mbCtlPos, hStaticMsg, hButtons,
                           hFont>>]_vars

\* an empty call returned -1 while the staging variables still held what an
\* earlier call had left in them
C3_Witness ==
    \E t \in Threads :
        /\ mbCallNo[t] = 2 /\ mbArgs[t] = <<>>
        /\ mbResult[t] = Returned(-1)
        /\ g_selectedId = 7 /\ g_msgContent # <<>> /\ g_boxTitle # <<>>

\* ------------------------------------------------------------------------
\* Properties of promptDialog
\* ------------------------------------------------------------------------

\* the last message the pump of thread t's call dispatched was of kind k and
\* went to the window the call created
PrLastOwn(t, k) ==
    /\ prDlg[t] # 0
    /\ prLast[t][1] = k
    /\ prLast[t][2] = prDlg[t]

PrReturnedValue(r, v) == r.kind = "return" /\ r.val = v

\* C4: after the confirm action on the window of the call, the window is
\* destroyed and the call returns true with output equal to the text the
\* input box held at the confirm action.
C4_ConfirmReturnsText ==
    \A t \in Threads :
        PrLastOwn(t, "ok") =>
            /\ prDlg[t] \notin DOMAIN prWindows
            /\ prPc[t] \in {"exit", "idle"}
            /\ (prPc[t] = "idle" /\ prResult[t].kind = "return") =>
                    /\ prResult[t].val = TRUE
                    /\ prOutput[t] = wideToUtf8(prLast[t][3])

\* C5: after the cancel action or WM_CLOSE on the window of the call, the
\* window is destroyed and the call returns false with an empty output,
\* whatever the input box held and whatever default content was given.
C5_CancelReturnsEmpty ==
    \A t \in Threads :
        (PrLastOwn(t, "cancel") \/ PrLastOwn(t, "close")) =>
            /\ prDlg[t] \notin DOMAIN prWindows
            /\ prPc[t] \in {"exit", "idle"}
            /\ prPc[t] = "idle" =>
                    /\ PrReturnedValue(prResult[t], FALSE)
                    /\ prOutput[t] = <<>>

\* a second call, given a default content, returned false on WM_CLOSE with
\* 256 letters in the input box, after a first call had returned true
C5_Witness ==
    \E t \in Threads :
        /\ PrLastOwn(t, "close")
        /\ prLast[t][3] = Repeat(97, INPUT_BUFFER_LEN)
        /\ prArgs[t][3] # <<>>
        /\ prPc[t] = "idle"
        /\ PrReturnedValue(prResult[t], FALSE)
        /\ Len(prTrace) = 2 /\ PrReturnedValue(prTrace[1], TRUE)

\* C6: a call returns true only if the confirm action was performed on the
\* window that this call created.
C6_TrueOnlyIfConfirmedHere ==
    \A t \in Threads :
        (prPc[t] = "idle" /\ PrReturnedValue(prResult[t], TRUE)) =>
            PrLastOwn(t, "ok")

\* ------------------------------------------------------------------------
\* Properties of the native-dialog wrappers
\* ------------------------------------------------------------------------

\* C7: when a file picker invoked the native dialog and the dialog reported
\* a negative result, the picker raises a runtime error if and only if the
\* extended error is non-zero, and otherwise returns the empty result.
C7_NegativeResultOfFileDialog ==
    (fpPc = "done" /\ fpNative # NoRequest /\ ~fpDialog.ok) =>
        /\ fpResult.kind = "runtime_error" <=> fpDialog.err # 0
        /\ fpDialog.err = 0 => fpResult = Outcome("return", <<>>)

\* the multi-select picker returned the empty list after a cancelled dialog
\* that had been given filters and a default file name
C7_Witness ==
    /\ fpPc = "done" /\ fpFn = "getOpenMultipleFileNames"
    /\ fpNative # NoRequest /\ ~fpDialog.ok /\ fpDialog.err = 0
    /\ fpArgs.filters # <<>> /\ fpArgs.defaultFileName # <<>>
    /\ fpResult = Outcome("return", <<>>)

\* the last chooseFont call returned after the user cancelled the dialog
CfCancelled ==
    cfResult.kind = "return" /\ ~cfDialog.ok /\ cfDialog.err = 0

\* C8: when the user cancels the font dialog the result is empty: no face
\* name, point size 0 and no font path, whatever fonts are registered.
C8_CancelledFontIsEmpty ==
    CfCancelled =>
        /\ cfi.fontFaceName = <<>>
        /\ cfi.fontPointSize = 0
        /\ cfi.fontPath = <<>>

\* C9: whenever chooseColor returns, selectedColor.a is 255 and r, g, b are
\* the three 8-bit channels of the result field of the native dialog.
C9_ColorFromResultField ==
    clResult.kind = "return" =>
        /\ clColor.a = 255
        /\ {clColor.r, clColor.g, clColor.b} \subseteq 0..255
        /\ clColor.r + 256 * clColor.g + 65536 * clColor.b = clRgbResult

\* chooseColor returned a picked color whose three channels differ, for a
\* caller whose alpha was not 255
C9_Witness ==
    /\ clResult.kind = "return"
    /\ clArg.a # 255
    /\ clRgbResult = 1193046
    /\ clColor = [r |-> 86, g |-> 52, b |-> 18, a |-> 255]

\* C10: the reported point size is the native tenths-of-a-point value
\* divided by 10 and truncated: 10 * size <= v < 10 * size + 10 for v >= 0.
C10_PointSizeTruncates ==
    (cfResult.kind = "return" /\ cfDialog.iPointSize >= 0) =>
        /\ 10 * cfi.fontPointSize <= cfDialog.iPointSize
        /\ cfDialog.iPointSize < 10 * cfi.fontPointSize + 10

\* a native value of 129 was reported as 12
C10_Witness ==
    /\ cfResult.kind = "return"
    /\ cfDialog.ok /\ cfDialog.iPointSize = 129
    /\ cfi.fontPointSize = 12

\* ------------------------------------------------------------------------
\* Properties of buildFilter and of the arguments of the file pickers
\* ------------------------------------------------------------------------

\* the filter list holds an entry without the separator '|'
HasMalformedEntry(filters) ==
    \E k \in 1..Len(filters) : \A j \in 1..Len(filters[k]) : filters[k][j] # 124

\* C11: when any entry of the filter list has no '|', the file picker signals
\* a format error (invalid_argument), never a runtime error, and the native
\* dialog is not invoked, wherever the entry sits in the list and whatever
\* the conversion of the other entries does.
C11_MalformedFilterIsFormatError ==
    (fpPc = "done" /\ fpFn # "none" /\ HasMalformedEntry(fpArgs.filters)) =>
        /\ fpResult.kind = "invalid_argument"
        /\ fpNative = NoRequest

\* the text of an entry before its first '|' and the text after it
LabelOf(filter) ==
    SubSeq(filter, 1, (CHOOSE k \in 1..Len(filter) :
                          filter[k] = 124 /\ \A j \in 1..(k - 1) : filter[j] # 124) - 1)

PatternOf(filter) == SubSeq(filter, Len(LabelOf(filter)) + 2, Len(filter))

\* the (label, pattern) pairs of a filter list, as wide text
PairsOf(filters) ==
    [k \in 1..Len(filters) |->
        <<utf8ToWide(LabelOf(filters[k])), utf8ToWide(PatternOf(filters[k]))>>]

\* label, terminator, pattern, terminator for each pair in order, then one
\* final terminator
RECURSIVE Layout(_)
Layout(pairs) ==
    IF pairs = <<>> THEN <<0>>
    ELSE pairs[1][1] \o <<0>> \o pairs[1][2] \o <<0>> \o Layout(Tail(pairs))

\* the position of the n-th terminator of a buffer (0 for n = 0)
TerminatorAt(w, n) ==
    IF n = 0 THEN 0
    ELSE CHOOSE k \in 1..Len(w) :
            w[k] = 0 /\ Cardinality({j \in 1..k : w[j] = 0}) = n

\* a buffer split on its terminators: the token before each terminator
SplitOnTerminators(w) ==
    [n \in 1..Cardinality({k \in 1..Len(w) : w[k] = 0}) |->
        SubSeq(w, TerminatorAt(w, n - 1) + 1, TerminatorAt(w, n) - 1)]

\* the pairs read back from the tokens of a filter buffer: two tokens for
\* each pair, then the empty token of the final terminator
PairsIn(w) ==
    LET tokens == SplitOnTerminators(w) IN
    [k \in 1..((Len(tokens) - 1) \div 2) |-> <<tokens[2 * k - 1], tokens[2 * k]>>]

\* the filter buffer w holds exactly the pairs of the filter list
HoldsPairs(w, filters) ==
    /\ w = Layout(PairsOf(filters))
    /\ Len(SplitOnTerminators(w)) = 2 * Len(filters) + 1
    /\ PairsIn(w) = PairsOf(filters)

\* the native dialog was invoked, so buildFilter returned a buffer
FilterBuilt == fpPc = "done" /\ fpNative # NoRequest

\* the original statement of C12: for every list of entries that each hold
\* a '|', the buffer is the layout of the pairs and splitting it on its
\* terminators recovers exactly the pairs.
C12_FilterBufferHoldsPairs_Orig ==
    FilterBuilt => HoldsPairs(fpNative.request.lpstrFilter, fpArgs.filters)

\* no label and no pattern of the list holds a terminator (NUL) character
NoTerminatorIn(filters) ==
    \A k \in 1..Len(filters) : \A j \in 1..Len(filters[k]) : filters[k][j] # 0

\* C12: for every list of entries that each hold a '|' and no NUL character,
\* the buffer buildFilter returns is, in input order, label, terminator,
\* pattern, terminator for each entry and one final terminator, the pattern
\* being everything after the first '|'; splitting it on its terminators
\* recovers exactly the (label, pattern) pairs.
C12_FilterBufferHoldsPairs ==
    (FilterBuilt /\ NoTerminatorIn(fpArgs.filters)) =>
        HoldsPairs(fpNative.request.lpstrFilter, fpArgs.filters)

\* the save dialog was given the buffer of "a|b|c" and "|x": a pattern with a
\* further '|' and an empty label
C12_Witness ==
    /\ FilterBuilt /\ fpFn = "getSaveFileName"
    /\ fpArgs.filters = << <<97, 124, 98, 124, 99>>, <<124, 120>> >>
    /\ fpNative.request.lpstrFilter = <<97, 0, 98, 124, 99, 0, 0, 120, 0, 0>>

\* the default file name is too long for the buffer of the picker fn
Oversized(fn, defaultFileName) ==
    LET size == Len(utf8ToWide(defaultFileName)) IN
    IF fn = "getOpenMultipleFileNames" THEN size * SIZEOF_WCHAR >= BUFFER_SIZE
    ELSE size >= MAX_PATH_LEN

\* C13: in the three file pickers an oversized default file name is
\* signalled before the native dialog is invoked, and as a caller-input
\* error (the kind of a malformed filter, invalid_argument), distinct from
\* the kind of the platform-operation errors (runtime_error).
C13_OversizedNameIsInputError ==
    (fpPc = "done" /\ fpFn # "none" /\ Oversized(fpFn, fpArgs.defaultFileName)) =>
        /\ fpNative = NoRequest
        /\ fpResult.kind = "invalid_argument"

\* ------------------------------------------------------------------------
\* Properties of the multi-select result
\* ------------------------------------------------------------------------

\* the tokens of the zero-filled file buffer
BufferTokens(buffer) == SplitOnTerminators(buffer \o <<0, 0>>)

\* the index of the first empty token behind the first token
FirstEmptyToken(tokens) ==
    CHOOSE e \in 2..Len(tokens) :
        tokens[e] = <<>> /\ \A j \in 2..(e - 1) : tokens[j] # <<>>

\* the paths the claim expects for a buffer: the directory joined with each
\* file name up to the first empty token, or the first token alone
ExpectedFiles(buffer) ==
    LET tokens == BufferTokens(buffer)
        e == FirstEmptyToken(tokens) IN
    IF e = 2 THEN <<wideToUtf8(tokens[1])>>
    ELSE [k \in 1..(e - 2) |-> wideToUtf8(tokens[1] \o <<92>> \o tokens[k + 1])]

\* the multi-select picker returned the paths of a confirmed dialog
MultiReturned ==
    /\ fpPc = "done" /\ fpFn = "getOpenMultipleFileNames"
    /\ fpNative # NoRequest /\ fpDialog.ok
    /\ fpResult.kind = "return"

\* C14: getOpenMultipleFileNames reads the returned buffer as a first token
\* D and file-name tokens up to the first empty token: with file names
\* f1..fk the result is D\f1, ..., D\fk in buffer order, without D itself;
\* with no file name it is D alone; nothing behind the first empty token is
\* read.
C14_MultiSelectParse ==
    MultiReturned => fpResult.val = ExpectedFiles(fpDialog.buffer)

\* "D" with "a" and a stale "b" behind the empty token gave exactly "D\a"
C14_Witness ==
    /\ MultiReturned
    /\ fpDialog.buffer = <<68, 0, 97, 0, 0, 98, 0>>
    /\ fpResult.val = << <<68, 92, 97>> >>

\* ------------------------------------------------------------------------
\* Properties of the encoding helpers
\* ------------------------------------------------------------------------

IsContByte(x) == x >= 128 /\ x <= 191

\* the number of bytes of the well-formed UTF-8 sequence at the head of b
\* (the table of well-formed byte sequences of the Unicode standard), 0 if
\* there is none
WellFormedHead(b) ==
    LET n == Len(b)
        b1 == b[1] IN
    IF b1 <= 127 THEN 1
    ELSE IF b1 >= 194 /\ b1 <= 223
        THEN IF n >= 2 /\ IsContByte(b[2]) THEN 2 ELSE 0
    ELSE IF b1 >= 224 /\ b1 <= 239
        THEN IF /\ n >= 3 /\ IsContByte(b[2]) /\ IsContByte(b[3])
                /\ b1 = 224 => b[2] >= 160
                /\ b1 = 237 => b[2] <= 159
             THEN 3 ELSE 0
    ELSE IF b1 >= 240 /\ b1 <= 244
        THEN IF /\ n >= 4 /\ IsContByte(b[2]) /\ IsContByte(b[3])
                /\ IsContByte(b[4])
                /\ b1 = 240 => b[2] >= 144
                /\ b1 = 244 => b[2] <= 143
             THEN 4 ELSE 0
    ELSE 0

\* a valid text: a sequence of well-formed encodings of Unicode scalar values
RECURSIVE IsValidText(_)
IsValidText(b) ==
    \/ b = <<>>
    \/ /\ WellFormedHead(b) # 0
       /\ IsValidText(SubSeq(b, WellFormedHead(b) + 1, Len(b)))

\* C15: for every valid text t, the empty one included,
\* wideToUtf8(utf8ToWide(t)) = t; for the empty text both helpers return the
\* empty text without a call of the platform conversion primitive.
C15_EncodingRoundTrip ==
    (cvPc = "back" /\ IsValidText(cvText)) =>
        /\ cvBack = cvText
        /\ cvText = <<>> => (cvWide = <<>> /\ cvPrimitiveCalls = 0)

\* U+10FFFF followed by U+00E9 came back unchanged through three wide units
\* and four calls of the primitive
C15_Witness ==
    /\ cvPc = "back"
    /\ cvText = <<244, 143, 191, 191, 195, 169>>
    /\ Len(cvWide) = 3
    /\ cvBack = cvText
    /\ cvPrimitiveCalls = 4

\* ------------------------------------------------------------------------
\* Properties of the font-path resolver
\* ------------------------------------------------------------------------

\* the face name chooseFont looked up in its last call
FontQuery == CStr(cfDialog.lfFaceName)

\* two characters that are equal or differ only in the case of a letter
SameLetter(a, b) ==
    \/ a = b
    \/ a >= 65 /\ a <= 90 /\ b = a + 32
    \/ b >= 65 /\ b <= 90 /\ a = b + 32

\* sub occurs in s, letter case ignored
ContainsIgnoringCase(s, sub) ==
    \E k \in 0..(Len(s) - Len(sub)) :
        \A j \in 1..Len(sub) : SameLetter(s[k + j], sub[j])

\* a value name without its parenthetical suffix: the text before the first
\* " ("
WithoutSuffix(name) ==
    LET starts == {k \in 1..(Len(name) - 1) : name[k] = 32 /\ name[k + 1] = 40} IN
    IF starts = {} THEN name
    ELSE SubSeq(name, 1, (CHOOSE k \in starts : \A j \in starts : k <= j) - 1)

\* the value is a string value whose name matches the query
MatchesQuery(value, query) ==
    value[2] = REG_SZ /\ ContainsIgnoringCase(WithoutSuffix(value[1]), query)

\* the path derived from a value: its data if that names a drive, else the
\* data under the Fonts directory of the Windows directory
PathFrom(value) ==
    IF \E k \in 1..Len(value[3]) : value[3][k] = 58 THEN value[3]
    ELSE WindowsDir \o <<92, 70, 111, 110, 116, 115, 92>> \o value[3]

\* what the claim expects of the scan of one list: the path of the first
\* matching value in enumeration order, the empty path without a match or
\* when the list cannot be opened
ExpectedScan(key, query) ==
    LET hits == {k \in 1..Len(key.values) : MatchesQuery(key.values[k], query)} IN
    IF ~key.open \/ hits = {} THEN <<>>
    ELSE PathFrom(key.values[CHOOSE k \in hits : \A j \in hits : k <= j])

\* the registration list a scan function reads
KeyOf(fn) == IF fn = "FindFontFileLocalMachine" THEN cfKeys.lm ELSE cfKeys.cu

\* C16: the scan of one registration list yields the path derived from the
\* first value, in enumeration order, that is a string value and whose name,
\* cut at its parenthetical suffix, contains the query, letter case ignored
\* on both sides; a later matching value never overrides it.
C16_FirstMatchWins ==
    \A k \in 1..Len(cfScans) :
        cfScans[k].result = ExpectedScan(KeyOf(cfScans[k].fn), FontQuery)

\* the query "AB" skipped the binary value "Zz", matched "xAB (T)" and was not
\* overridden by the later value "ab"
C16_Witness ==
    /\ FontQuery = <<65, 66>>
    /\ cfKeys.lm = FontKey(TRUE, FontList2)
    /\ Len(cfScans) = 1
    /\ cfScans[1].result = <<67, 58, 120>>

\* C17: FindFontFile scans the per-user list if and only if the per-machine
\* scan yields no match; a per-machine match is returned in preference to
\* any per-user match; when neither list yields a match, a list that cannot
\* be opened included, the path is empty and no error is raised.
C17_TwoPhaseFallback ==
    cfScans # <<>> =>
        LET lm == ExpectedScan(cfKeys.lm, FontQuery)
            cu == ExpectedScan(cfKeys.cu, FontQuery) IN
        /\ cfScans[1].fn = "FindFontFileLocalMachine"
        /\ Len(cfScans) = IF lm = <<>> THEN 2 ELSE 1
        /\ Len(cfScans) = 2 => cfScans[2].fn = "FindFontFileCurrentUser"
        /\ cfResult.kind = "return" =>
               cfi.fontPath = wideToUtf8(IF lm # <<>> THEN lm ELSE cu)
        /\ (lm = <<>> /\ cu = <<>>) =>
               (cfResult.kind = "return" /\ cfi.fontPath = <<>>)

\* the per-machine list could not be opened and the per-user list gave the
\* path of "Ab (T)"
C17_Witness ==
    /\ FontQuery = <<97, 98>>
    /\ ~cfKeys.lm.open /\ cfKeys.lm.values # <<>>
    /\ Len(cfScans) = 2
    /\ cfResult.kind = "return"
    /\ cfi.fontPath = <<67, 58, 92, 87, 92, 70, 111, 110, 116, 115, 92, 97, 46, 116>>

\* ------------------------------------------------------------------------
\* Properties of the teardown of promptDialog and messageBox
\* ------------------------------------------------------------------------

\* thread t's last promptDialog call has ended and had created a window
PrEndedWithWindow(t) == prPc[t] = "idle" /\ prDlg[t] # 0

\* thread t's last messageBox call has ended and had created a window
MbEndedWithWindow(t) == mbPc[t] = "idle" /\ mbDlg[t] # 0

\* C18: promptDialog and messageBox block until their window is destroyed:
\* whatever messages reached the queue of the calling thread while the
\* dialog was open, when the call has returned the window it created no
\* longer exists.
C18_ReturnsAfterWindowDestroyed ==
    \A t \in Threads :
        /\ PrEndedWithWindow(t) => prDlg[t] \notin DOMAIN prWindows
        /\ MbEndedWithWindow(t) => mbDlg[t] \notin DOMAIN mbWindows

\* no promptDialog call is in progress
NoPromptInProgress == \A t \in Threads : prPc[t] = "idle"

\* no messageBox call is in progress
NoMessageBoxInProgress == \A t \in Threads : mbPc[t] = "idle"

\* C19: the input-text buffer an invocation of promptDialog allocates is
\* freed before the invocation returns, on every outcome, so that after any
\* sequence of completed invocations no buffer allocated by promptDialog is
\* live (stated for the invocations that returned: confirmed, cancelled,
\* window closed, window creation failed).
C19_NoLiveBufferAfterReturn ==
    (NoPromptInProgress /\ \A k \in 1..Len(prTrace) : prTrace[k].kind = "return")
        => \A b \in DOMAIN prHeap : ~prHeap[b].live

\* C20: on every exit of an invocation of promptDialog or messageBox (a
\* return on any outcome, a failed window creation, an error raised by a
\* string conversion) the window class of the dialog is no longer
\* registered, so that a later invocation can register it again.
C20_ClassUnregisteredAfterExit ==
    /\ NoPromptInProgress => ~prClass
    /\ NoMessageBoxInProgress => ~mbClass

\* ------------------------------------------------------------------------
\* Properties of the process-wide staging variables
\* ------------------------------------------------------------------------

\* C21: after promptDialog or messageBox has returned, on any path, the
\* process-wide staging variables hold nothing of the invocation: the option
\* list is empty, the staged message, title and default content are
\* cleared, the confirm flag is false and the input-buffer pointer refers to
\* no buffer, freed or live.
C21_StagingResetAfterReturn ==
    /\ (NoPromptInProgress /\ prCalls > 0) =>
           /\ g_message = <<>>
           /\ g_defalutContent = <<>>
           /\ ~g_did_confirm
           /\ g_inputText \notin DOMAIN prHeap
    /\ (NoMessageBoxInProgress /\ mbCalls > 0) =>
           /\ g_options = <<>>
           /\ g_msgContent = <<>>
           /\ g_boxTitle = <<>>

\* the request chooseColor hands to the native dialog in a process that made
\* no invocation before, for the same arguments
FirstColorRequest(selectedColor, hwndParent) ==
    [api |-> "ChooseColorW", hwndOwner |-> hwndParent,
     lpCustColors |-> [k \in 1..16 |-> 0],
     rgbResult |-> RGB(selectedColor.r, selectedColor.g, selectedColor.b),
     Flags |-> {"CC_RGBINIT", "CC_FULLOPEN"}]

\* C22: no data is shared across invocations: what an invocation passes to
\* the native dialog depends on its arguments only, whatever invocations
\* were completed earlier in the process, so the request of any chooseColor
\* invocation is the request a first invocation with the same arguments
\* makes.
C22_NoDataSharedAcrossInvocations ==
    clNative # NoRequest =>
        clNative = FirstColorRequest(clArg, clNative.hwndOwner)

\* ------------------------------------------------------------------------
\* Properties of concurrent invocations
\* ------------------------------------------------------------------------

\* the other of the two threads
OtherThread(t) == CHOOSE u \in Threads : u # t

\* the ids (first components) of a list of options
OptionIds(options) == {options[i][1] : i \in 1..Len(options)}

\* thread t's last messageBox call returned an id that is not among its own
\* options and is neither 0 nor -1
MbReturnedForeignId(t) ==
    /\ mbPc[t] = "idle"
    /\ mbResult[t].kind = "return"
    /\ mbResult[t].val \notin {0, -1} \cup OptionIds(mbArgs[t])

\* thread t's last promptDialog call was confirmed in its own window and
\* returned true with a text other than the one its input box held
PrReturnedForeignText(t) ==
    /\ prPc[t] = "idle"
    /\ PrLastOwn(t, "ok")
    /\ PrReturnedValue(prResult[t], TRUE)
    /\ prOutput[t] #
           wideToUtf8(CStr(GetDlgItemTextW(prLast[t][3], INPUT_BUFFER_LEN)))

\* C23: concurrent invocation is unsafe because the staging variables are
\* shared: an invocation of messageBox returns an id that is not among its
\* own options (and is neither 0 nor -1) only when the other thread staged
\* an invocation after this one was staged, and a confirmed invocation of
\* promptDialog returns a text that its own input box did not hold only when
\* the other thread invoked promptDialog too; with two threads there is an
\* interleaving in which this happens (the witness).
C23_ForeignDataFromOtherThread ==
    \A t \in Threads :
        /\ MbReturnedForeignId(t) => mbCallNo[OtherThread(t)] > mbCallNo[t]
        /\ PrReturnedForeignText(t) => prCallNo[OtherThread(t)] # 0

\* thread "main" passed the one option 7, pressed the first button of its
\* own window and returned 8, an id of the options thread "second" staged
C23_Witness ==
    /\ MbReturnedForeignId("main")
    /\ OptionIds(mbArgs["main"]) = {7}
    /\ mbLast["main"] = <<"command", mbDlg["main"], BTN_START + 1>>
    /\ mbResult["main"].val = 8
    /\ 8 \in OptionIds(mbArgs["second"])

\* thread "main" typed "a" and confirmed, and returned the text typed in the
\* dialog of thread "second"
C23_PromptCase ==
    /\ PrReturnedForeignText("main")
    /\ prLast["main"][3] = <<97>>
    /\ prOutput["main"] = wideToUtf8(<<233>>)

\* ------------------------------------------------------------------------
\* Properties of the prompt dialog as a state machine
\* ------------------------------------------------------------------------

\* the state of thread t's invocation of promptDialog: constructing until
\* the window exists, visible while the pump runs, closed once the confirm,
\* cancel or close action on its own window was handled, and ended when the
\* pump stopped for another reason
PrState(t) ==
    IF prPc[t] = "staged" THEN "constructing"
    ELSE IF prPc[t] = "pump" THEN "visible"
    ELSE IF prDlg[t] = 0 THEN "none"
    ELSE IF PrLastOwn(t, "ok") THEN "closed-confirmed"
    ELSE IF PrLastOwn(t, "cancel") \/ PrLastOwn(t, "close") THEN "closed-cancelled"
    ELSE "ended"

\* the text captured in the buffer g_inputText points to
CapturedText ==
    IF g_inputText \in DOMAIN prHeap THEN prHeap[g_inputText].text ELSE <<>>

\* C24: an invocation of promptDialog whose window is created moves from
\* constructing to visible and from there to exactly one of closed-confirmed
\* and closed-cancelled: a step that leaves the visible state is the confirm,
\* cancel or close action on the window of the invocation and records the
\* matching outcome, every other message leaves it visible, and once closed
\* the recorded outcome and the captured text no longer change during the
\* invocation.
C24_PromptStateMachine ==
    [][\A t \in Threads :
        /\ PrState(t) = "constructing" =>
               PrState(t)' \in {"constructing", "visible", "none"}
        /\ PrState(t) = "visible" =>
               /\ PrState(t)' \in {"visible", "closed-confirmed", "closed-cancelled"}
               /\ PrState(t)' = "closed-confirmed" => g_did_confirm'
               /\ PrState(t)' = "closed-cancelled" => ~g_did_confirm'
        /\ (PrState(t) \in {"closed-confirmed", "closed-cancelled"}
               /\ prCallNo'[t] = prCallNo[t]) =>
               /\ PrState(t)' = PrState(t)
               /\ g_did_confirm' = g_did_confirm
               /\ CapturedText' = CapturedText]_vars

\* ------------------------------------------------------------------------
\* Properties of the dismissal of the two custom dialogs
\* ------------------------------------------------------------------------

\* an option button of the window of thread t's messageBox call was pressed,
\* or that window was closed
MbDismissed(t) ==
    /\ mbDlg[t] # 0
    /\ mbLast[t][1] \in {"command", "close"}
    /\ mbLast[t][2] = mbDlg[t]

\* the confirm, cancel or close action was performed on the window of thread
\* t's promptDialog call
PrDismissed(t) ==
    PrLastOwn(t, "ok") \/ PrLastOwn(t, "cancel") \/ PrLastOwn(t, "close")

\* C25: once the user has performed a dismissing action on the visible
\* dialog (confirm, cancel, window close, pressing an option button) the
\* call of promptDialog or messageBox eventually returns; and there is no
\* timeout: the pump of a call ends only with a dismissing action or with a
\* quit message.
C25_DismissalLiveness ==
    /\ \A t \in Threads : MbDismissed(t) ~> (mbPc[t] = "idle")
    /\ \A t \in Threads : PrDismissed(t) ~> (prPc[t] = "idle")
    /\ [][\A t \in Threads :
            /\ (mbPc[t] = "pump" /\ mbPc'[t] # "pump") =>
                   mbLast'[t][1] \in {"command", "close", "quit"}
            /\ (prPc[t] = "pump" /\ prPc'[t] # "pump") =>
                   prLast'[t][1] \in {"ok", "cancel", "close", "quit"}]_vars

\* the call of messageBox returned after resize events and then the press
\* of the second option button
C25_Witness ==
    /\ mbPc["main"] = "idle"
    /\ MbPressedOwn("main", 1)
    /\ "size" \in mbSeen["main"]
    /\ mbResult["main"] = Returned(8)

\* ------------------------------------------------------------------------
\* Properties of the layout of the message box
\* ------------------------------------------------------------------------

\* the rectangles a and b (<<x, y, cx, cy>>) have no point in common
Disjoint(a, b) ==
    \/ a[1] + a[3] <= b[1]
    \/ b[1] + b[3] <= a[1]
    \/ a[2] + a[4] <= b[2]
    \/ b[2] + b[4] <= a[2]

\* the window of thread t's messageBox call exists and has been resized
MbResized(t) ==
    /\ mbDlg[t] \in DOMAIN mbWindows
    /\ mbDlg[t] \in DOMAIN mbClient

\* the rectangle of button i (0-based) of the window of thread t's call
MbButtonRect(t, i) == mbCtlPos[<<mbDlg[t], BTN_START + i>>]

\* C26: after every resize of the message box to the client size (W, H),
\* with n >= 1 options, button i is 100x30 at x = 20 + (i mod 3)*120 and
\* y = (H - 50) - (i div 3)*40, hence at most three buttons in a row, the
\* first three in the bottom row and each further three one row higher; no
\* two buttons overlap; and when the client size is that of the window as
\* messageBox sizes it (height 140 + 40*((n-1) div 3), less the frame and
\* caption) the top row of buttons is at the same distance from the top for
\* every n.
C26_ButtonLayout ==
    \A t \in Threads :
        MbResized(t) =>
            LET n == Len(mbArgs[t])
                H == mbClient[mbDlg[t]][2] IN
            /\ n >= 1
            /\ \A i \in 0..(n - 1) :
                   MbButtonRect(t, i) =
                       <<20 + (i % 3) * 120, (H - 50) - (i \div 3) * 40, 100, 30>>
            /\ \A i, j \in 0..(n - 1) :
                   i # j => Disjoint(MbButtonRect(t, i), MbButtonRect(t, j))
            /\ \A nc \in NonClientSizes :
                   H = 140 + 40 * ((n - 1) \div 3) - nc[2] =>
                       MbButtonRect(t, n - 1)[2] = 90 - nc[2]

\* four options in the window as messageBox sized it, with a frame and
\* caption of 29: the fourth button is alone in the second row, 61 below the
\* top of the client area, where the only row of a three-option box is
C26_Witness ==
    /\ MbResized("main")
    /\ Len(mbArgs["main"]) = 4
    /\ mbClient[mbDlg["main"]] = <<374, 151>>
    /\ MbButtonRect("main", 3) = <<20, 61, 100, 30>>
    /\ MbButtonRect("main", 2) = <<260, 101, 100, 30>>

\* ------------------------------------------------------------------------
\* Properties of the path the font-path resolver returns
\* ------------------------------------------------------------------------

\* the path names a drive
HasDrive(path) == \E k \in 1..Len(path) : path[k] = 58

\* the first value of the list of key that matches the query, when the scan
\* of the key finds one
FirstMatch(key, query) ==
    LET hits == {k \in 1..Len(key.values) : MatchesQuery(key.values[k], query)} IN
    key.values[CHOOSE k \in hits : \A j \in hits : k <= j]

\* the scan of key finds a value that matches the query
HasMatch(key, query) ==
    key.open /\ \E k \in 1..Len(key.values) : MatchesQuery(key.values[k], query)

\* C27: when the path of the matched registry value names no drive, the
\* scan returns the system font directory joined with that value, and when
\* it names a drive the value unchanged; in the per-machine and in the
\* per-user list alike a match therefore yields a non-empty path.
C27_PathResolution ==
    \A k \in 1..Len(cfScans) :
        LET key == KeyOf(cfScans[k].fn) IN
        HasMatch(key, FontQuery) =>
            LET data == FirstMatch(key, FontQuery)[3] IN
            /\ cfScans[k].result # <<>>
            /\ ~HasDrive(data) =>
                   cfScans[k].result =
                       <<67, 58, 92, 87, 92, 70, 111, 110, 116, 115, 92>> \o data
            /\ HasDrive(data) => cfScans[k].result = data

\* the per-machine value "ab" has no data: the scan returned the font
\* directory itself, "C:\W\Fonts\"
C27_Witness ==
    /\ FontQuery = <<97, 98>>
    /\ cfKeys.lm = FontKey(TRUE, FontList4)
    /\ Len(cfScans) = 1
    /\ cfScans[1].result = <<67, 58, 92, 87, 92, 70, 111, 110, 116, 115, 92>>

\* ------------------------------------------------------------------------
\* Properties of the values messageBox returns
\* ------------------------------------------------------------------------

\* C28: over any sequence of messageBox invocations and of window messages
\* within each, the value an invocation returns is -1, 0 or the id of one of
\* the options passed to that invocation, never an id an earlier invocation
\* left in the selected id.
C28_ReturnsOwnIdOrSentinel ==
    \A t \in Threads :
        (mbPc[t] = "idle" /\ mbResult[t].kind = "return") =>
            mbResult[t].val \in {0, -1} \cup OptionIds(mbArgs[t])

\* a first invocation returned 8; the second, whose options hold no 8 and
\* whose window could not be created, returned 0
C28_Witness ==
    /\ mbTrace = <<Returned(8), Returned(0)>>
    /\ mbPc["main"] = "idle"
    /\ OptionIds(mbArgs["main"]) = {7}
    /\ mbDlg["main"] = 0
    /\ g_selectedId = 0
    /\ ~mbClass

\* ------------------------------------------------------------------------
\* Properties of the commands the two window procedures ignore
\* ------------------------------------------------------------------------

\* C29: in the message box a command whose control id lies outside
\* [2000, 2000 + number of options) leaves the dialog open and the selected
\* id and the staged options as they were; in the prompt dialog a command
\* whose id is neither OK (1003) nor Cancel (1004) leaves the dialog open
\* and the confirm flag and the captured text as they were.
C29_OtherCommandsIgnored ==
    [][/\ \A t \in Threads, w \in DOMAIN mbWindows, btnId \in CommandIds :
            (/\ MbWmCommand(t, w, btnId)
             /\ (btnId < 2000 \/ btnId >= 2000 + Len(mbArgs[t]))) =>
                /\ w \in DOMAIN mbWindows'
                /\ mbPc'[t] = "pump"
                /\ UNCHANGED <<g_selectedId, g_options>>
       /\ \A t \in Threads, w \in DOMAIN prWindows, id \in PrCommandIds :
            (PrWmCommand(t, w, id) /\ id \notin {1003, 1004}) =>
                /\ w \in DOMAIN prWindows'
                /\ prPc'[t] = "pump"
                /\ UNCHANGED <<g_did_confirm, prHeap>>]_vars

\* the window of a message box with two options is open after a command
\* with the id 2002, the first id past its buttons
C29_Witness ==
    /\ Len(mbArgs["main"]) = 2
    /\ mbLast["main"] = <<"ignored", mbDlg["main"], BTN_START + 2>>
    /\ mbDlg["main"] \in DOMAIN mbWindows
    /\ mbPc["main"] = "pump"
    /\ Len(g_options) = 2

\* ------------------------------------------------------------------------
\* Properties of the button list of the message box
\* ------------------------------------------------------------------------

\* C30: over any sequence of messageBox invocations, while a message-box
\* window exists during an invocation the button list of the window
\* procedure holds exactly one handle for each option of that invocation, in
\* option order (button i has the control id 2000+i and is a control of the
\* window of the invocation), and no handle of an earlier invocation; when
\* no window exists the list is empty.
C30_ButtonListMatchesOptions ==
    /\ DOMAIN mbWindows = {} => hButtons = <<>>
    /\ \A w \in DOMAIN mbWindows :
           LET t == mbWindows[w] IN
           mbPc[t] # "idle" =>
               /\ Len(hButtons) = Len(mbArgs[t])
               /\ \A i \in 1..Len(hButtons) :
                      /\ hButtons[i] = <<mbDlg[t], 2000 + (i - 1)>>
                      /\ hButtons[i] \in DOMAIN mbCtlPos

====
